---- MODULE Spec2Model ----
(***************************************************************************)
(* Model of the couch-kit host (packages/host/src/provider.tsx): the       *)
(* session registry, the ACTION pipeline entry, the grace timers and the   *)
(* React state/ref pair, driven by the events of the WebSocket server     *)
(* (packages/host/src/websocket.ts) and by the wrapped reducer             *)
(* (createGameReducer).                                                    *)
(***************************************************************************)
EXTENDS Integers, Sequences, FiniteSets, Bags, TLC

---------------------------------------------------------------------------
(* Bounds of the model *)

MaxSockets == 2
MaxMsgs == 2
MaxJoins == 3

(* Program constants *)

RATE_LIMIT_MAX == 60
RATE_LIMIT_WINDOW == 1000
MAX_PENDING_PINGS == 50

\* a burst runs to two actions beyond the limit, time to one window and a half
MaxBurst == RATE_LIMIT_MAX + 2
MaxTime == RATE_LIMIT_WINDOW + (RATE_LIMIT_WINDOW \div 2)

---------------------------------------------------------------------------
(* JS Map / object helpers: maps are functions with a finite domain *)

EmptyMap == << >>

Has(m, k) == k \in DOMAIN m

Put(m, k, v) == [x \in (DOMAIN m) \cup {k} |-> IF x = k THEN v ELSE m[x]]

Del(m, k) == [x \in (DOMAIN m) \ {k} |-> m[x]]

---------------------------------------------------------------------------
(* Values *)

Sockets == 1..MaxSockets

Secrets == {"s1", "s2"}

UNDEF == "undefined"

\* isValidSecret: the format check on the presented secret
isValidSecret(secret) == secret \in Secrets

\* derivePlayerId: the current (SHA-256) derivation
derivePlayerId(secret) == IF secret = "s1" THEN "h1" ELSE "h2"

\* derivePlayerIdLegacy: the legacy derivation (prefix of the secret)
derivePlayerIdLegacy(secret) == IF secret = "s1" THEN "l1" ELSE "l2"

PlayerIds == {derivePlayerId(s) : s \in Secrets} \cup {derivePlayerIdLegacy(s) : s \in Secrets}

InternalActionTypes ==
  [HYDRATE |-> "__HYDRATE__",
   PLAYER_JOINED |-> "__PLAYER_JOINED__",
   PLAYER_LEFT |-> "__PLAYER_LEFT__",
   PLAYER_RECONNECTED |-> "__PLAYER_RECONNECTED__",
   PLAYER_REMOVED |-> "__PLAYER_REMOVED__"]

UserTypes == {"INC", "NOOP"}

\* HYDRATE replaces the state by its payload; a client can only carry an
\* empty-lobby snapshot in this model
HydratePayload == [players |-> << >>, count |-> 0]

\* an action object: type, the player it is about (payload.id or
\* payload.playerId), the joining name and avatar, the state a HYDRATE
\* carries, and the playerId field stamped by the host
Action(type, target, name, avatar, payload, playerId) ==
  [type |-> type, target |-> target, name |-> name, avatar |-> avatar,
   payload |-> payload, playerId |-> playerId]

\* the actions of the host: no client message carries an avatar
Act(type, target, name, playerId) ==
  Action(type, target, name, UNDEF, HydratePayload, playerId)

---------------------------------------------------------------------------
(* The reducer *)

\* the application's reducer: INC counts, anything else returns the same state
userReducer(st, action) ==
  IF action.type = "INC" THEN [st EXCEPT !.count = st.count + 1] ELSE st

\* does the application's reducer return a new reference
userReducerChanges(st, action) == action.type = "INC"

\* a PLAYER_JOINED case that does not spread state.players
PlayerJoinedAlone(st, action) ==
  [st EXCEPT !.players = Put(EmptyMap, action.target,
      [id |-> action.target, name |-> action.name, avatar |-> action.avatar,
       isHost |-> FALSE, connected |-> TRUE])]

PlayerJoined(st, action) ==
  [st EXCEPT !.players = Put(st.players, action.target,
      [id |-> action.target, name |-> action.name, avatar |-> action.avatar,
       isHost |-> FALSE, connected |-> TRUE])]

PlayerLeft(st, action) ==
  IF ~Has(st.players, action.target) THEN st
  ELSE [st EXCEPT !.players[action.target].connected = FALSE]

PlayerReconnected(st, action) ==
  IF ~Has(st.players, action.target) THEN st
  ELSE [st EXCEPT !.players[action.target].connected = TRUE]

PlayerRemoved(st, action) ==
  IF ~Has(st.players, action.target) THEN st
  ELSE [st EXCEPT !.players = Del(st.players, action.target)]

\* the reducers an application may hand to createGameReducer: "counter" is
\* userReducer; "any" has no default branch that ignores an action: it counts
\* every action it is given
UserReducers == {"counter", "any"}

\* what a reducer call gives back: the state, which object it is ("state" the
\* object passed in, "payload" the action's payload, "new" an object made by
\* the call), the actions the application's reducer was called with, and what
\* the object passed in holds after the call
Reduced(st, ref, calls, input) ==
  [state |-> st, ref |-> ref, calls |-> calls, input |-> input]

\* reducer(state, action)
reducerOf(reducer, st, action) ==
  IF reducer = "counter"
  THEN Reduced(userReducer(st, action),
               IF userReducerChanges(st, action) THEN "new" ELSE "state", <<action>>, st)
  ELSE Reduced([st EXCEPT !.count = st.count + 1], "new", <<action>>, st)

\* a wrapper that knows HYDRATE, PLAYER_JOINED and PLAYER_LEFT only
wrappedThreeTypes(reducer, st, action) ==
  CASE action.type = InternalActionTypes.HYDRATE ->
         Reduced(action.payload, "payload", << >>, st)
    [] action.type = InternalActionTypes.PLAYER_JOINED ->
         Reduced(PlayerJoined(st, action), "new", << >>, st)
    [] action.type = InternalActionTypes.PLAYER_LEFT ->
         Reduced(PlayerLeft(st, action),
                 IF Has(st.players, action.target) THEN "new" ELSE "state", << >>, st)
    [] OTHER -> reducerOf(reducer, st, action)

\* a wrapper whose PLAYER_LEFT case lacks the check for an unknown player
wrappedLeftUnchecked(reducer, st, action) ==
  IF action.type = InternalActionTypes.PLAYER_LEFT /\ ~Has(st.players, action.target)
  THEN Reduced([st EXCEPT !.players = Put(st.players, action.target, [connected |-> FALSE])],
               "new", << >>, st)
  ELSE CASE action.type = InternalActionTypes.PLAYER_RECONNECTED ->
              Reduced(PlayerReconnected(st, action),
                      IF Has(st.players, action.target) THEN "new" ELSE "state", << >>, st)
         [] action.type = InternalActionTypes.PLAYER_REMOVED ->
              Reduced(PlayerRemoved(st, action),
                      IF Has(st.players, action.target) THEN "new" ELSE "state", << >>, st)
         [] OTHER -> wrappedThreeTypes(reducer, st, action)

\* the function createGameReducer(reducer) returns, applied to a state and an
\* action
wrapped(reducer, st, action) ==
  CASE action.type = InternalActionTypes.HYDRATE ->
         Reduced(action.payload, "payload", << >>, st)
    [] action.type = InternalActionTypes.PLAYER_JOINED ->
         Reduced(PlayerJoined(st, action), "new", << >>, st)
    [] action.type = InternalActionTypes.PLAYER_LEFT ->
         Reduced(PlayerLeft(st, action),
                 IF Has(st.players, action.target) THEN "new" ELSE "state", << >>, st)
    [] action.type = InternalActionTypes.PLAYER_RECONNECTED ->
         Reduced(PlayerReconnected(st, action),
                 IF Has(st.players, action.target) THEN "new" ELSE "state", << >>, st)
    [] action.type = InternalActionTypes.PLAYER_REMOVED ->
         Reduced(PlayerRemoved(st, action),
                 IF Has(st.players, action.target) THEN "new" ELSE "state", << >>, st)
    [] OTHER -> reducerOf(reducer, st, action)

\* the host's reducer: createGameReducer(config.reducer)
createGameReducer(st, action) == wrapped("counter", st, action).state

\* TRUE when the reducer returns a new object (React re-renders), FALSE when
\* it returns the state it was given (React bails out)
reducerChanges(st, action) == wrapped("counter", st, action).ref # "state"

\* no reducer call made yet
NoReduction ==
  [phase |-> "none", reducer |-> "counter", reductions |-> 0,
   given |-> HydratePayload, action |-> Act("NOOP", UNDEF, UNDEF, UNDEF),
   res |-> Reduced(HydratePayload, "state", << >>, HydratePayload)]

---------------------------------------------------------------------------
(* Wire messages, as the parsed JSON value handed to the message handler *)

NONSTR == "<not a string>"

\* typeof v === "string"
isString(v) == v \notin {UNDEF, NONSTR}

\* a parsed message: its type field and the fields of its payload
\* (obj: the payload is a non-null object; isTrue: the payload is the value true)
Msg(type, obj, isTrue, name, secret, atype, target, id, timestamp) ==
  [type |-> type, obj |-> obj, isTrue |-> isTrue, name |-> name, secret |-> secret,
   atype |-> atype, target |-> target, id |-> id, timestamp |-> timestamp]

JoinMsgs ==
  {Msg("JOIN", TRUE, FALSE, n, s, UNDEF, UNDEF, UNDEF, UNDEF) :
     n \in {"Ann"}, s \in Secrets \cup {UNDEF, "not-a-uuid"}}
  \cup {Msg("JOIN", TRUE, FALSE, UNDEF, "s1", UNDEF, UNDEF, UNDEF, UNDEF),
        Msg("JOIN", FALSE, FALSE, UNDEF, UNDEF, UNDEF, UNDEF, UNDEF, UNDEF)}

ActionMsgs ==
  {Msg("ACTION", TRUE, FALSE, UNDEF, UNDEF, t, UNDEF, UNDEF, UNDEF) : t \in UserTypes \cup {NONSTR}}
  \cup {Msg("ACTION", TRUE, FALSE, UNDEF, UNDEF, InternalActionTypes[k], "h1", UNDEF, UNDEF) :
          k \in DOMAIN InternalActionTypes}

OtherMsgs ==
  {Msg("PING", TRUE, FALSE, UNDEF, UNDEF, UNDEF, UNDEF, "p1", "number"),
   Msg("PING", TRUE, FALSE, UNDEF, UNDEF, UNDEF, UNDEF, "p1", NONSTR),
   Msg("ASSETS_LOADED", FALSE, TRUE, UNDEF, UNDEF, UNDEF, UNDEF, UNDEF, UNDEF),
   Msg("ASSETS_LOADED", FALSE, FALSE, UNDEF, UNDEF, UNDEF, UNDEF, UNDEF, UNDEF),
   Msg("STATE_UPDATE", TRUE, FALSE, UNDEF, UNDEF, UNDEF, UNDEF, UNDEF, UNDEF),
   Msg(NONSTR, TRUE, FALSE, UNDEF, UNDEF, UNDEF, UNDEF, UNDEF, UNDEF),
   Msg(UNDEF, FALSE, FALSE, UNDEF, UNDEF, UNDEF, UNDEF, UNDEF, UNDEF)}

Messages == JoinMsgs \cup ActionMsgs \cup OtherMsgs

\* the well-formed JOINs, which drive the session registry
RegistryMsgs == {m \in JoinMsgs : isString(m.name) /\ m.secret \in Secrets}

\* the ACTIONs of a burst
BurstMsgs == {m \in ActionMsgs : m.atype = "INC"}

isValidClientMessage(m) ==
  /\ isString(m.type)
  /\ CASE m.type = "JOIN" -> m.obj /\ isString(m.name)
       [] m.type = "ACTION" -> m.obj /\ isString(m.atype)
       [] m.type = "PING" -> m.obj /\ isString(m.id) /\ m.timestamp = "number"
       [] m.type = "ASSETS_LOADED" -> m.isTrue
       [] OTHER -> FALSE

\* host -> client messages
HostMsg(to, type, code, playerId) ==
  [to |-> to, type |-> type, code |-> code, playerId |-> playerId]

ErrorMsg(to, code) == HostMsg(to, "ERROR", code, UNDEF)

---------------------------------------------------------------------------
(* WebSocket frame codec (websocket.ts). A Buffer is a sequence of bytes     *)
(* 0..255; offsets of the code are 0-based, indices of a sequence 1-based.   *)

OPCODE == [CONTINUATION |-> 0, TEXT |-> 1, BINARY |-> 2, CLOSE |-> 8, PING |-> 9, PONG |-> 10]

\* a ^ b on bytes
RECURSIVE xor(_, _)
xor(a, b) ==
  IF a = 0 THEN b
  ELSE IF b = 0 THEN a
  ELSE ((a + b) % 2) + 2 * xor(a \div 2, b \div 2)

\* buffer.slice(n)
slice(buffer, n) == SubSeq(buffer, n + 1, Len(buffer))

readUInt16BE(buffer, offset) == buffer[offset + 1] * 256 + buffer[offset + 2]

readUInt32BE(buffer, offset) ==
  ((buffer[offset + 1] * 256 + buffer[offset + 2]) * 256 + buffer[offset + 3]) * 256
    + buffer[offset + 4]

\* the three outcomes of decodeFrame: null, an exception, a frame
FrameNull == [kind |-> "null"]

FrameThrow == [kind |-> "throw"]

\* payload[i] = maskedPayload[i] ^ mask[i % 4]
unmask(buffer, headerLength, payloadLength) ==
  [i \in 1..payloadLength |->
     xor(buffer[headerLength + 4 + i], buffer[headerLength + 1 + ((i - 1) % 4)])]

decodeFrame(buffer) ==
  IF Len(buffer) < 2 THEN FrameNull
  ELSE
    LET opcode == buffer[1] % 16
        isMasked == buffer[2] >= 128
        len7 == buffer[2] % 128
    IN IF len7 = 126 /\ Len(buffer) < 4 THEN FrameNull
       ELSE IF len7 = 127 /\ Len(buffer) < 10 THEN FrameNull
       ELSE IF len7 = 127 /\ readUInt32BE(buffer, 2) > 0 THEN FrameThrow
       ELSE
         LET payloadLength == IF len7 = 126 THEN readUInt16BE(buffer, 2)
                              ELSE IF len7 = 127 THEN readUInt32BE(buffer, 6)
                              ELSE len7
             headerLength == IF len7 = 126 THEN 4 ELSE IF len7 = 127 THEN 10 ELSE 2
             maskLength == IF isMasked THEN 4 ELSE 0
             totalFrameLength == headerLength + maskLength + payloadLength
         IN IF Len(buffer) < totalFrameLength THEN FrameNull
            ELSE [kind |-> "frame",
                  opcode |-> opcode,
                  payload |-> IF isMasked
                              THEN unmask(buffer, headerLength, payloadLength)
                              ELSE SubSeq(buffer, headerLength + 1, headerLength + payloadLength),
                  bytesConsumed |-> totalFrameLength]

\* buildFrame with the short form stretched to 126 bytes
buildFrameShort126(opcode, payload) ==
  LET length == Len(payload)
      first == 128 + (opcode % 128)
      header == IF length > 65535
                THEN <<first, 127, 0, 0, 0, 0,
                       (length \div 16777216) % 256, (length \div 65536) % 256,
                       (length \div 256) % 256, length % 256>>
                ELSE IF length > 126
                THEN <<first, 126, (length \div 256) % 256, length % 256>>
                ELSE <<first, length>>
  IN header \o payload

\* frame[0] = 0x80 | opcode; the second byte is the length form alone, the
\* mask bit is never written
buildFrame(opcode, payload) ==
  LET length == Len(payload)
      first == 128 + (opcode % 128)
      header == IF length > 65535
                THEN <<first, 127, 0, 0, 0, 0,
                       (length \div 16777216) % 256, (length \div 65536) % 256,
                       (length \div 256) % 256, length % 256>>
                ELSE IF length > 125
                THEN <<first, 126, (length \div 256) % 256, length % 256>>
                ELSE <<first, length>>
  IN header \o payload

encodeControlFrame(opcode, payload) == buildFrame(opcode, payload)

\* buffer.toString("utf8"): the characters of the string, each with its code
\* point c and the number n of bytes of its UTF-8 encoding. One- and two-byte
\* sequences are decoded; any other byte of 128..255 is replaced by U+FFFD,
\* which is exact for byte values outside 224..244 (the lead bytes of three-
\* and four-byte sequences, which no stream of this model contains).
RECURSIVE toStringUtf8(_)
toStringUtf8(buffer) ==
  IF buffer = << >> THEN << >>
  ELSE IF buffer[1] < 128
    THEN <<[c |-> buffer[1], n |-> 1]>> \o toStringUtf8(Tail(buffer))
  ELSE IF buffer[1] \in 194..223 /\ Len(buffer) >= 2 /\ buffer[2] \in 128..191
    THEN <<[c |-> (buffer[1] - 192) * 64 + (buffer[2] - 128), n |-> 2]>>
           \o toStringUtf8(slice(buffer, 2))
  ELSE <<[c |-> 65533, n |-> 3]>> \o toStringUtf8(Tail(buffer))

\* Buffer.byteLength(str, "utf8")
RECURSIVE byteLength(_)
byteLength(str) == IF str = << >> THEN 0 ELSE str[1].n + byteLength(Tail(str))

\* "\r\n\r\n"
CRLFCRLF == <<13, 10, 13, 10>>

\* str.indexOf("\r\n\r\n"): 0-based index of the first occurrence, or -1
indexOf(str) ==
  LET hits == {i \in 1..(Len(str) - 3) : \A k \in 1..4 : str[i + k - 1].c = CRLFCRLF[k]}
  IN IF hits = {} THEN -1 ELSE (CHOOSE i \in hits : \A j \in hits : i <= j) - 1

\* header.match(/Sec-WebSocket-Key: (.+)/): the letter K (75) stands for a
\* header line "Sec-WebSocket-Key: <key>"
KEYLINE == 75

keyMatch(header) == \E i \in 1..Len(header) : header[i].c = KEYLINE

\* JSON.parse(frame.payload.toString("utf8")) for payloads over the digits 1-9
\* and the brace: a non-empty string of digits is a number, everything else
\* with these characters is a SyntaxError
jsonParses(payload) ==
  LET text == toStringUtf8(payload)
  IN text # << >> /\ \A i \in 1..Len(text) : text[i].c \in 49..57

\* events of the server and writes on the socket, in order
MessageEvent(id, payload) == [ev |-> "message", id |-> id, val |-> payload]

WriteEvent(bytes) == [ev |-> "write", id |-> UNDEF, val |-> bytes]

ConnectionEvent(id) == [ev |-> "connection", id |-> id, val |-> << >>]

DisconnectEvent(id) == [ev |-> "disconnect", id |-> id, val |-> << >>]

\* the 101 Switching Protocols response (its text is not modelled)
HandshakeResponse == WriteEvent(<<49, 48, 49>>)

SOCKID == "sock"

\* socket.write: a destroyed socket refuses the write; the exception is
\* caught where the codec writes (l.166-170, l.179-183)
write(sock, bytes) ==
  IF sock.destroyed THEN sock ELSE [sock EXCEPT !.log = Append(@, WriteEvent(bytes))]

\* a socket as the connection callback sees it, with the closure's buffer
NewSocket ==
  [buffer |-> << >>, isHandshakeComplete |-> FALSE, id |-> UNDEF, destroyed |-> FALSE,
   inClients |-> FALSE, log |-> << >>, threw |-> FALSE]

handleHandshake(sock, header) ==
  IF ~keyMatch(header)
  THEN [sock EXCEPT !.destroyed = TRUE]
  ELSE [write(sock, HandshakeResponse.val) EXCEPT
          !.id = SOCKID, !.inClients = TRUE,
          !.log = Append(@, ConnectionEvent(SOCKID))]

\* an opcode switch that closes the connection on every frame it cannot use
handleFrameStrict(sock, frame) ==
  IF frame.opcode = OPCODE.CLOSE \/ frame.opcode \notin {OPCODE.TEXT, OPCODE.PING}
  THEN [write(sock, <<136, 0>>) EXCEPT !.destroyed = TRUE]
  ELSE sock

\* the opcode switch of processFrames
handleFrame(sock, frame) ==
  IF frame.opcode = OPCODE.TEXT
  THEN IF jsonParses(frame.payload)
       THEN [sock EXCEPT !.log = Append(@, MessageEvent(sock.id, frame.payload))]
       ELSE sock
  ELSE IF frame.opcode = OPCODE.CLOSE
  THEN [write(sock, <<136, 0>>) EXCEPT !.destroyed = TRUE]
  ELSE IF frame.opcode = OPCODE.PING
  THEN write(sock, encodeControlFrame(OPCODE.PONG, frame.payload))
  ELSE sock

\* processFrames: sock.buffer is the closure's buffer, which only setBuffer
\* (the last statement) replaces; an exception of decodeFrame leaves the loop
\* and the function before setBuffer
RECURSIVE processFrames(_, _)
processFrames(sock, buffer) ==
  IF Len(buffer) = 0 THEN [sock EXCEPT !.buffer = buffer]
  ELSE
    LET frame == decodeFrame(buffer)
    IN IF frame.kind = "throw" THEN [sock EXCEPT !.threw = TRUE]
       ELSE IF frame.kind = "null" THEN [sock EXCEPT !.buffer = buffer]
       ELSE
         LET rest == slice(buffer, frame.bytesConsumed)
             handled == handleFrame(sock, frame)
         IN IF handled.destroyed
            THEN [handled EXCEPT !.buffer = rest]
            ELSE processFrames(handled, rest)

\* the bytes the handshake branch keeps for the frames
headerByteLength(header) == byteLength(SubSeq(header, 1, indexOf(header) + 4))

\* socket.on("data")
onData(sock, data) ==
  LET buffer == sock.buffer \o data
      header == toStringUtf8(buffer)
  IN IF ~sock.isHandshakeComplete
     THEN IF indexOf(header) # -1
          THEN LET remaining == slice(buffer, headerByteLength(header))
                   shaken == [handleHandshake(sock, header) EXCEPT
                                !.buffer = remaining, !.isHandshakeComplete = TRUE]
               IN processFrames(shaken, remaining)
          ELSE [sock EXCEPT !.buffer = buffer]
     ELSE processFrames([sock EXCEPT !.buffer = buffer], buffer)

\* socket.on("close")
onClose(sock) ==
  IF sock.id # UNDEF
  THEN [sock EXCEPT !.inClients = FALSE, !.log = Append(@, DisconnectEvent(sock.id))]
  ELSE sock

\* a frame as a client puts it on the wire: mask bit set, the key, and the
\* payload XORed with the key (payload[i] ^ key[i % 4])
maskedFrame(opcode, payload, key) ==
  <<128 + opcode, 128 + Len(payload)>> \o key
    \o [i \in 1..Len(payload) |-> xor(payload[i], key[((i - 1) % 4) + 1])]

\* no frame put together yet
NoFrame ==
  [kind |-> "none", masked |-> FALSE, opcode |-> 0, payload |-> << >>, key |-> << >>,
   frame |-> << >>, decoded |-> FrameNull]

\* no TCP connection yet
NoConnection == [phase |-> "none", stream |-> << >>, pos |-> 0, sock |-> NewSocket]

---------------------------------------------------------------------------
(* applyMiddleware (core middleware.ts). A middleware is given by what its   *)
(* layer does with an action:                                                *)
(*   track       observes, calls next(action), observes, returns the result  *)
(*   replace     as track, but returns a state of its own making             *)
(*   drop        returns api.getState() without calling next                 *)
(*   throwBefore throws before calling next                                  *)
(*   throwAfter  calls next(action), then throws                             *)
(* Every observation reads api.getState().                                   *)

MwKinds == {"track", "replace", "drop", "throwBefore", "throwAfter"}

initialState == [players |-> EmptyMap, count |-> 0]

MwActions == {Act("INC", UNDEF, UNDEF, UNDEF), Act("NOOP", UNDEF, UNDEF, UNDEF)}

\* an entry of the observation order: the middleware's index in the array
\* (0 for the reducer), what it observed, and api.getState() at that point
Obs(label, ev, seen) == [mw |-> label, ev |-> ev, seen |-> seen]

observe(ctx, label, ev) ==
  [ctx EXCEPT !.trace = Append(@, Obs(label, ev, ctx.currentState))]

\* a baseDispatch that returns the reducer's output and leaves currentState
baseDispatchNoRef(ctx, action) ==
  LET newState == createGameReducer(ctx.currentState, action)
  IN [res |-> newState,
      ctx |-> [currentState |-> ctx.currentState, calls |-> ctx.calls + 1,
               trace |-> Append(ctx.trace, Obs(0, "reducer", newState))]]

\* currentState = reducer(currentState, action); return currentState
baseDispatch(ctx, action) ==
  LET newState == createGameReducer(ctx.currentState, action)
  IN [res |-> newState,
      ctx |-> [currentState |-> newState, calls |-> ctx.calls + 1,
               trace |-> Append(ctx.trace, Obs(0, "reducer", newState))]]

\* the state a replace middleware returns instead of its next's result
replaced(st) == [st EXCEPT !.count = @ + 10]

\* chain.reduce in place of reduceRight: the last middleware outermost
nestingReversed(n) == [d \in 1..n |-> n + 1 - d]

\* chain.reduceRight((next, layer) => layer(next), baseDispatch): the array
\* index of the layer at each depth, outermost first
nesting(n) == [d \in 1..n |-> d]

RECURSIVE dispatchFrom(_, _, _, _)

\* a catch clause that always forwards the action
caughtForward(chain, depth, ctx, action, nextCalled) ==
  dispatchFrom(chain, depth + 1, observe(ctx, nesting(Len(chain))[depth], "error"), action)

\* the catch clause of a layer: nextCalled ? api.getState() : next(action)
caught(chain, depth, ctx, action, nextCalled) ==
  LET logged == observe(ctx, nesting(Len(chain))[depth], "error")
  IN IF nextCalled
     THEN [res |-> logged.currentState, ctx |-> logged]
     ELSE dispatchFrom(chain, depth + 1, logged, action)

\* the schemas handed to actionValidator in a chain: a schema maps an action
\* type to what its validator returns for the actions of that type
ValidatorKinds ==
  {"validator{}", "validator{INC:true}", "validator{INC:false}",
   "validator{INC:false,JOINED:false}"}

schema(kind) ==
  CASE kind = "validator{}" -> EmptyMap
    [] kind = "validator{INC:true}" -> [t \in {"INC"} |-> TRUE]
    [] kind = "validator{INC:false}" -> [t \in {"INC"} |-> FALSE]
    [] kind = "validator{INC:false,JOINED:false}" ->
         [t \in {"INC", InternalActionTypes.PLAYER_JOINED} |-> FALSE]

\* new Set(Object.values(InternalActionTypes))
getInternalTypes == {InternalActionTypes[k] : k \in DOMAIN InternalActionTypes}

\* a validator that looks up the schema for every action, internal or not
actionValidatorNoExemption(chain, depth, ctx, action) ==
  LET index == nesting(Len(chain))[depth]
      validate == schema(chain[index])
  IN IF Has(validate, action.type) /\ ~validate[action.type]
     THEN [res |-> ctx.currentState, ctx |-> observe(ctx, index, "warn")]
     ELSE dispatchFrom(chain, depth + 1, ctx, action)

\* the layer of actionValidator(schema): internal actions go to next; an action
\* whose validator returns false is answered with api.getState() after a
\* console.warn; every other action goes to next
actionValidator(chain, depth, ctx, action) ==
  LET index == nesting(Len(chain))[depth]
      validate == schema(chain[index])
  IN IF action.type \in getInternalTypes
     THEN dispatchFrom(chain, depth + 1, ctx, action)
     ELSE IF Has(validate, action.type) /\ ~validate[action.type]
     THEN [res |-> ctx.currentState, ctx |-> observe(ctx, index, "warn")]
     ELSE dispatchFrom(chain, depth + 1, ctx, action)

\* the dispatch function at a depth of the chain; below the last layer it is
\* baseDispatch
dispatchFrom(chain, depth, ctx, action) ==
  IF depth > Len(chain) THEN baseDispatch(ctx, action)
  ELSE
    LET index == nesting(Len(chain))[depth]
        kind == chain[index]
        entered == observe(ctx, index, "in")
        down == dispatchFrom(chain, depth + 1, entered, action)
    IN CASE kind = "track" -> [res |-> down.res, ctx |-> observe(down.ctx, index, "out")]
         [] kind = "replace" -> [res |-> replaced(down.res), ctx |-> observe(down.ctx, index, "out")]
         [] kind = "drop" -> [res |-> entered.currentState, ctx |-> entered]
         [] kind = "throwBefore" -> caught(chain, depth, entered, action, FALSE)
         [] kind = "throwAfter" -> caught(chain, depth, down.ctx, action, TRUE)
         [] kind \in ValidatorKinds -> actionValidator(chain, depth, ctx, action)

\* the reducer applyMiddleware returns: currentState = state; dispatch(action)
enhanced(chain, st, action) ==
  dispatchFrom(chain, 1, [currentState |-> st, calls |-> 0, trace |-> << >>], action)

\* applyMiddleware not called yet
NoMiddleware ==
  [phase |-> "none", chain |-> << >>, dispatches |-> 0, given |-> initialState,
   action |-> UNDEF, res |-> initialState, calls |-> 0, trace |-> << >>]

---------------------------------------------------------------------------
(* broadcast of the WebSocket server. What a write to a socket does is an    *)
(* input: "ok" the frame is written, "throws" the call throws, "rejects" the *)
(* promise it returns is rejected.                                          *)

\* what a broadcast did: the sockets the frame was written to, whether an
\* exception reached the caller, whether an "error" event was emitted
Broadcasted(written, propagated, errorEvent) ==
  [written |-> written, propagated |-> propagated, errorEvent |-> errorEvent]

\* this.clients.forEach((socket, id) => { if (id !== excludeId) write }): the
\* callback runs in insertion order and an exception ends the loop
RECURSIVE forEachWrite(_, _, _)
forEachWrite(ids, excludeId, failure) ==
  IF ids = << >> THEN [written |-> {}, threw |-> FALSE]
  ELSE IF Head(ids) = excludeId THEN forEachWrite(Tail(ids), excludeId, failure)
  ELSE IF failure[Head(ids)] = "throws" THEN [written |-> {}, threw |-> TRUE]
  ELSE LET rest == forEachWrite(Tail(ids), excludeId, failure)
       IN [written |-> rest.written \cup
                         (IF failure[Head(ids)] = "ok" THEN {Head(ids)} ELSE {}),
           threw |-> rest.threw]

\* broadcast of the server on TCP sockets: socket.write(frame) for every
\* client, no try / catch
broadcast(ids, excludeId, failure) ==
  LET done == forEachWrite(ids, excludeId, failure)
  IN Broadcasted(done.written, done.threw, FALSE)

\* broadcast of the server on nitro WebSockets: client.ws.send(message) with a
\* catch handler on the promise of each send, and one try / catch around the
\* whole loop that logs and emits "error"
broadcastNitro(ids, excludeId, failure) ==
  LET done == forEachWrite(ids, excludeId, failure)
  IN Broadcasted(done.written, FALSE, done.threw)

\* no server started yet
NoBroadcast ==
  [clients |-> << >>, broadcasts |-> 0, server |-> "none", failure |-> EmptyMap,
   excludeId |-> UNDEF, res |-> Broadcasted({}, FALSE, FALSE)]

---------------------------------------------------------------------------
(* replayActions (packages/core/src/replay.ts), replayed with the reducer of *)
(* its tests. A state is kept with the object it is: "initialState" the      *)
(* object of the recording, "new" an object a reducer call made.             *)

\* a recorded action {action: {type, payload?: {value}}, timestamp}
RecordedAction(type, hasValue, value, timestamp) ==
  [action |-> [type |-> type, hasValue |-> hasValue, value |-> value],
   timestamp |-> timestamp]

\* a recording; endTimestamp is optional
Recording(initial, actions, startTimestamp, hasEnd, endTimestamp) ==
  [initialState |-> initial, actions |-> actions, startTimestamp |-> startTimestamp,
   hasEnd |-> hasEnd, endTimestamp |-> endTimestamp]

\* a state and the object that holds it
Held(st, ref) == [state |-> st, ref |-> ref]

\* testReducer: every case it knows returns a new object, the default case
\* returns the state it was given
testReducer(cur, action) ==
  CASE action.type = "INCREMENT" ->
         Held([cur.state EXCEPT !.count = @ + 1], "new")
    [] action.type = "DECREMENT" ->
         Held([cur.state EXCEPT !.count = @ - 1], "new")
    [] action.type = "SET" ->
         Held([cur.state EXCEPT !.count = IF action.hasValue THEN action.value ELSE 0],
              "new")
    [] OTHER -> cur

\* a replay that starts from a copy of the initial state
initialCopied(recording) == Held(recording.initialState, "new")

\* let currentState = recording.initialState
initialOf(recording) == Held(recording.initialState, "initialState")

\* a snapshot that is taken before the reducer ran
snapshotBefore(before, after, recorded, i) ==
  [state |-> before.state, action |-> recorded.action,
   timestamp |-> recorded.timestamp, index |-> i]

\* snapshots.push({state: currentState, action, timestamp, index: i}), after
\* currentState = reducer(currentState, action)
snapshot(before, after, recorded, i) ==
  [state |-> after.state, action |-> recorded.action,
   timestamp |-> recorded.timestamp, index |-> i]

\* the for loop from index i on (zero-based, as in the code)
RECURSIVE replayFrom(_, _, _)
replayFrom(actions, i, cur) ==
  IF ~(i < Len(actions)) THEN [cur |-> cur, snapshots |-> << >>]
  ELSE LET recorded == actions[i + 1]
           after == testReducer(cur, recorded.action)
           rest == replayFrom(actions, i + 1, after)
       IN [cur |-> rest.cur,
           snapshots |-> <<snapshot(cur, after, recorded, i)>> \o rest.snapshots]

\* an end of the recording taken with || : an endTimestamp of 0 counts as absent
endTimestampFalsy(recording) ==
  IF recording.hasEnd /\ recording.endTimestamp # 0 THEN recording.endTimestamp
  ELSE IF Len(recording.actions) > 0
       THEN recording.actions[Len(recording.actions)].timestamp
       ELSE recording.startTimestamp

\* recording.endTimestamp ?? (last action's timestamp, or startTimestamp)
endTimestampOf(recording) ==
  IF recording.hasEnd THEN recording.endTimestamp
  ELSE IF Len(recording.actions) > 0
       THEN recording.actions[Len(recording.actions)].timestamp
       ELSE recording.startTimestamp

\* replayActions(recording, testReducer)
replayActions(recording) ==
  LET done == replayFrom(recording.actions, 0, initialOf(recording))
  IN [finalState |-> done.cur.state, finalRef |-> done.cur.ref,
      snapshots |-> done.snapshots,
      duration |-> endTimestampOf(recording) - recording.startTimestamp,
      actionCount |-> Len(recording.actions)]

\* initialState of the replay tests
replayInitialState == [players |-> EmptyMap, count |-> 0]

\* no recording made yet
NoReplay ==
  [phase |-> "none",
   recording |-> Recording(replayInitialState, << >>, 0, FALSE, 0),
   res |-> [finalState |-> replayInitialState, finalRef |-> "initialState",
            snapshots |-> << >>, duration |-> 0, actionCount |-> 0],
   again |-> [finalState |-> replayInitialState, finalRef |-> "initialState",
              snapshots |-> << >>, duration |-> 0, actionCount |-> 0]]

---------------------------------------------------------------------------
(* useServerTime and calculateTimeSync of the client (time-sync.ts). Times   *)
(* are whole milliseconds; rtt / 2 may end in .5, so an offset is kept as    *)
(* the number of half milliseconds it holds (offset2 = 2 * offset).          *)

\* {offset, rtt}
TimeSync(offset2, rtt) == [offset2 |-> offset2, rtt |-> rtt]

\* a latency that is cut to whole milliseconds
calculateTimeSyncTruncated(clientSendTime, clientReceiveTime, serverTime) ==
  LET rtt == clientReceiveTime - clientSendTime
      latency == rtt \div 2
      expectedServerTime2 == 2 * serverTime + 2 * latency
  IN TimeSync(expectedServerTime2 - 2 * clientReceiveTime, rtt)

\* calculateTimeSync: latency2 is rtt / 2 in half milliseconds
calculateTimeSync(clientSendTime, clientReceiveTime, serverTime) ==
  LET rtt == clientReceiveTime - clientSendTime
      latency2 == rtt
      expectedServerTime2 == 2 * serverTime + latency2
  IN TimeSync(expectedServerTime2 - 2 * clientReceiveTime, rtt)

\* pings.current: a Map from probe id to send time, kept in insertion order
Ping(id, sent) == [id |-> id, sent |-> sent]

\* the keys of the Map
pingIds(pings) == {pings[i].id : i \in 1..Len(pings)}

\* a sync that makes room by deleting the newest entry
syncEvictsNewest(pings, id, timestamp) ==
  LET kept == IF Len(pings) >= MAX_PENDING_PINGS
              THEN SubSeq(pings, 1, Len(pings) - 1) ELSE pings
  IN Append(kept, Ping(id, timestamp))

\* sync: when the Map is full its first key is deleted, then the new probe is
\* set; generateId gives an id that is not in the Map, so the entry goes last
sync(pings, id, timestamp) ==
  LET kept == IF Len(pings) >= MAX_PENDING_PINGS THEN Tail(pings) ELSE pings
  IN Append(kept, Ping(id, timestamp))

\* pings.current.delete(id)
deletePing(pings, id) == SelectSeq(pings, LAMBDA p : p.id # id)

\* handlePong(payload) at Date.now() = receiveTime: if (sentTime) tests the looked-up
\* send time for truthiness, so an unknown id and a send time of 0 are skipped
handlePong(pings, timeSync, receiveTime, payload) ==
  LET found == payload.id \in pingIds(pings)
      sent == IF found
              THEN pings[CHOOSE i \in 1..Len(pings) : pings[i].id = payload.id].sent
              ELSE 0
  IN IF found /\ sent # 0
     THEN [pings |-> deletePing(pings, payload.id),
           timeSync |-> calculateTimeSync(sent, receiveTime, payload.serverTime),
           matched |-> TRUE, sent |-> sent]
     ELSE [pings |-> pings, timeSync |-> timeSync, matched |-> FALSE, sent |-> 0]

\* the hook before its socket is open
NoTimeSync ==
  [phase |-> "none", pings |-> << >>, timeSync |-> TimeSync(0, 0), now |-> 1,
   ids |-> 0, pongs |-> 0, op |-> "none",
   pong |-> [id |-> 0, serverTime |-> 0],
   calc |-> [send |-> 0, receive |-> 0, server |-> 0, ran |-> FALSE]]

---------------------------------------------------------------------------
(* State *)

VARIABLES
  status,              \* socket -> "new" | "open" | "closing" | "closed"
  pending,             \* derivePlayerId promises not yet resolved
  sessions,            \* secret -> socketId
  reverseMap,          \* socketId -> secret
  socketIdToPlayerId,  \* socketId -> playerId
  cleanupTimers,       \* playerId -> timer
  timers,              \* the grace timers that are armed (setTimeout not yet fired or cleared)
  welcomedClients,     \* set of socketIds
  pendingWelcome,      \* socketId -> {playerId, isReconnect}
  assetsLoaded,        \* playerId -> boolean
  actionQueue,         \* actions dispatched since the last broadcast
  rateLimits,          \* socketId -> {count, windowStart}
  state,               \* the reducer's state (canonical state)
  stateRef,            \* stateRef.current: the state of the last committed render
  renderPending,       \* a state update is queued and not yet rendered
  broadcastTimer,      \* the debounce timer is armed
  mounted,             \* the provider is mounted
  now,                 \* Date.now()
  msgs,                \* number of message events so far
  out,                 \* what the last handler dispatched and sent
  joinSeen,            \* history: JOINs received while another open socket held the secret
  dupSeen,             \* history: JOINs received while a JOIN of the same socket was unresolved
  closedReg,           \* history: secrets whose registered socket closed, not rejoined or removed since
  lastEvent,           \* history: playerId -> last registry event ("joined" | "left")
  tcp,                 \* one TCP connection of the WebSocket server: the bytes its client
                       \* sends, how many were delivered, the socket and its closure
  mw,                  \* a reducer wrapped by applyMiddleware and its last dispatch
  wire,                \* the last frame put together, and what decodeFrame returns for it
  red,                 \* a reducer made by createGameReducer and its last call
  bc,                  \* the clients table of a server and its last broadcast
  rp,                  \* a recording and what replayActions returns for it
  ts                   \* the pending probes and the time sync of useServerTime

vars == <<status, pending, sessions, reverseMap, socketIdToPlayerId, cleanupTimers,
          timers, welcomedClients, pendingWelcome, assetsLoaded, actionQueue,
          rateLimits, state, stateRef, renderPending, broadcastTimer, mounted,
          now, msgs, out, joinSeen, dupSeen, closedReg, lastEvent, tcp, mw, wire, red, bc, rp, ts>>

registry == <<sessions, reverseMap, socketIdToPlayerId, cleanupTimers, timers,
              welcomedClients, pendingWelcome, assetsLoaded, rateLimits>>

\* what a handler did: the actions it dispatched, the messages it sent, and
\* the grace timers it cancelled with clearTimeout
OutC(disp, sent, cleared) == [disp |-> disp, sent |-> sent, cleared |-> cleared]

Out(disp, sent) == OutC(disp, sent, {})

NoOut == Out(<< >>, {})

\* the clients table of the WebSocket server
clients == {s \in Sockets : status[s] = "open"}

\* config.initialState: an empty lobby, or a lobby restored with one player
\* that was issued its id under the legacy derivation
InitialStates ==
  {[players |-> EmptyMap, count |-> 0],
   [players |-> [p \in {"l1"} |-> [id |-> "l1", name |-> "Ann", avatar |-> UNDEF,
                                   isHost |-> FALSE, connected |-> FALSE]],
    count |-> 0]}

Init ==
  /\ status = [s \in Sockets |-> "new"]
  /\ pending = EmptyBag
  /\ sessions = EmptyMap
  /\ reverseMap = EmptyMap
  /\ socketIdToPlayerId = EmptyMap
  /\ cleanupTimers = EmptyMap
  /\ timers = {}
  /\ welcomedClients = {}
  /\ pendingWelcome = EmptyMap
  /\ assetsLoaded = EmptyMap
  /\ actionQueue = << >>
  /\ rateLimits = EmptyMap
  /\ state \in InitialStates
  /\ stateRef = state
  /\ renderPending = FALSE
  /\ broadcastTimer = TRUE
  /\ mounted = TRUE
  /\ now = 0
  /\ msgs = 0
  /\ out = NoOut
  /\ joinSeen = {}
  /\ dupSeen = {}
  /\ closedReg = {}
  /\ lastEvent = EmptyMap
  /\ tcp = NoConnection
  /\ mw = NoMiddleware
  /\ wire = NoFrame
  /\ red = NoReduction
  /\ bc = NoBroadcast
  /\ rp = NoReplay
  /\ ts = NoTimeSync

\* the host started on an empty lobby
InitLobby == Init /\ state.players = EmptyMap

---------------------------------------------------------------------------
(* dispatch of useReducer: the reducer is applied to the queued actions in   *)
(* order; an update of an unmounted component is dropped                     *)

dispatchState(action) == IF mounted THEN createGameReducer(state, action) ELSE state

dispatchRender(action) == renderPending \/ (mounted /\ reducerChanges(state, action))

---------------------------------------------------------------------------
(* WebSocket server events *)

\* a handshake succeeds: the socket gets its id and enters the clients table
Connect(s) ==
  /\ mounted
  /\ status[s] = "new"
  /\ \A t \in Sockets : t < s => status[t] # "new"
  /\ status' = [status EXCEPT ![s] = "open"]
  /\ out' = NoOut
  /\ UNCHANGED <<pending, registry, actionQueue, state, stateRef, renderPending,
                 broadcastTimer, mounted, now, msgs, joinSeen, dupSeen, closedReg, lastEvent, tcp, mw, wire, red, bc, rp, ts>>

\* server.send: written only to a socket that is in the clients table
send(msgsToSend) == {h \in msgsToSend : h.to \in clients}

\* a JOIN case that starts the derivation without looking at the secret
handleJoinUnchecked(s, m) ==
  /\ pending' = pending (+) SetToBag({[sock |-> s, secret |-> m.secret, name |-> m.name]})
  /\ out' = NoOut
  /\ UNCHANGED <<joinSeen, dupSeen>>

\* the JOIN case of the message handler
handleJoin(s, m) ==
  IF m.secret = UNDEF \/ ~isValidSecret(m.secret)
  THEN /\ out' = Out(<< >>, send({ErrorMsg(s, "INVALID_SECRET")}))
       /\ UNCHANGED <<pending, joinSeen, dupSeen>>
  ELSE /\ pending' = pending (+) SetToBag({[sock |-> s, secret |-> m.secret, name |-> m.name]})
       /\ joinSeen' =
            IF /\ Has(sessions, m.secret)
               /\ sessions[m.secret] # s
               /\ status[sessions[m.secret]] = "open"
               /\ Has(reverseMap, sessions[m.secret])
               /\ reverseMap[sessions[m.secret]] = m.secret
            THEN joinSeen \cup {[new |-> s, old |-> sessions[m.secret], secret |-> m.secret]}
            ELSE joinSeen
       /\ dupSeen' =
            IF \E d \in BagToSet(pending) : d.sock = s /\ d.secret = m.secret
            THEN dupSeen \cup {[sock |-> s, secret |-> m.secret, name |-> m.name]}
            ELSE dupSeen
       /\ out' = NoOut

\* the rejection list without the reconnect / removal types
isInternalTypeThree(t) ==
  t \in {InternalActionTypes.HYDRATE, InternalActionTypes.PLAYER_JOINED,
         InternalActionTypes.PLAYER_LEFT}

isInternalType(t) == t \in {InternalActionTypes[k] : k \in DOMAIN InternalActionTypes}

\* a window that restarts as soon as its length is reached
rateInfoAfterEarlyReset(s) ==
  LET rateInfo == IF ~Has(rateLimits, s) \/ now - rateLimits[s].windowStart >= RATE_LIMIT_WINDOW
                  THEN [count |-> 0, windowStart |-> now]
                  ELSE rateLimits[s]
  IN [rateInfo EXCEPT !.count = @ + 1]

\* the rate-limit record of socket s after counting one more ACTION at time now
rateInfoAfter(s) ==
  LET rateInfo == IF ~Has(rateLimits, s) \/ now - rateLimits[s].windowStart > RATE_LIMIT_WINDOW
                  THEN [count |-> 0, windowStart |-> now]
                  ELSE rateLimits[s]
  IN [rateInfo EXCEPT !.count = @ + 1]

\* the ACTION case of the message handler
handleAction(s, m) ==
  IF isInternalType(m.atype)
  THEN /\ out' = Out(<< >>, send({ErrorMsg(s, "FORBIDDEN_ACTION")}))
       /\ UNCHANGED <<rateLimits, state, renderPending, actionQueue>>
  ELSE /\ rateLimits' = Put(rateLimits, s, rateInfoAfter(s))
       /\ IF rateInfoAfter(s).count > RATE_LIMIT_MAX
          THEN /\ out' = Out(<< >>, send({ErrorMsg(s, "RATE_LIMITED")}))
               /\ UNCHANGED <<state, renderPending, actionQueue>>
          ELSE LET resolvedPlayerId == IF Has(socketIdToPlayerId, s)
                                       THEN socketIdToPlayerId[s] ELSE UNDEF
                   action == Act(m.atype, m.target, UNDEF, resolvedPlayerId)
               IN /\ state' = dispatchState(action)
                  /\ renderPending' = dispatchRender(action)
                  /\ actionQueue' = Append(actionQueue, Act(m.atype, m.target, UNDEF, UNDEF))
                  /\ out' = Out(<<action>>, {})

\* the ASSETS_LOADED case of the message handler
handleAssetsLoaded(s) ==
  /\ assetsLoaded' = IF Has(socketIdToPlayerId, s)
                     THEN Put(assetsLoaded, socketIdToPlayerId[s], TRUE)
                     ELSE assetsLoaded
  /\ out' = NoOut

\* server.on("message"): one parsed text frame of an open socket
RecvMessage(s, m) ==
  /\ status[s] = "open"
  /\ msgs' = msgs + 1
  /\ IF ~isValidClientMessage(m)
     THEN /\ out' = Out(<< >>, send({ErrorMsg(s, "INVALID_MESSAGE")}))
          /\ UNCHANGED <<pending, joinSeen, dupSeen, rateLimits, state, renderPending,
                         actionQueue, assetsLoaded>>
     ELSE CASE m.type = "JOIN" ->
                 /\ handleJoin(s, m)
                 /\ UNCHANGED <<rateLimits, state, renderPending, actionQueue, assetsLoaded>>
            [] m.type = "ACTION" ->
                 /\ handleAction(s, m)
                 /\ UNCHANGED <<pending, joinSeen, dupSeen, assetsLoaded>>
            [] m.type = "PING" ->
                 /\ out' = Out(<< >>, send({HostMsg(s, "PONG", m.id, UNDEF)}))
                 /\ UNCHANGED <<pending, joinSeen, dupSeen, rateLimits, state, renderPending,
                                actionQueue, assetsLoaded>>
            [] m.type = "ASSETS_LOADED" ->
                 /\ handleAssetsLoaded(s)
                 /\ UNCHANGED <<pending, joinSeen, dupSeen, rateLimits, state, renderPending, actionQueue>>
  /\ UNCHANGED <<status, sessions, reverseMap, socketIdToPlayerId, cleanupTimers, timers,
                 welcomedClients, pendingWelcome, stateRef, broadcastTimer, mounted,
                 now, closedReg, lastEvent, tcp, mw, wire, red, bc, rp, ts>>

\* the identity a resolved derivation settles on (dual derivation, legacy fallback)
resolvePlayerId(secret) ==
  LET hashedId == derivePlayerId(secret)
      legacyId == derivePlayerIdLegacy(secret)
  IN IF ~Has(stateRef.players, hashedId) /\ Has(stateRef.players, legacyId)
     THEN legacyId ELSE hashedId

\* a JOIN that cancels no grace timer
existingTimerNotCleared(playerId) == {}

\* cleanupTimers.current.get(playerId): the timer a resolved JOIN clears
existingTimer(playerId) ==
  IF Has(cleanupTimers, playerId) THEN {cleanupTimers[playerId]} ELSE {}

\* derivePlayerId(secret).then(...): the continuation of a JOIN
ResolveJoin(d) ==
  LET playerId == resolvePlayerId(d.secret)
      existingPlayer == Has(stateRef.players, playerId)
      action == IF existingPlayer
                THEN Act(InternalActionTypes.PLAYER_RECONNECTED, playerId, UNDEF, UNDEF)
                ELSE Act(InternalActionTypes.PLAYER_JOINED, playerId, d.name, UNDEF)
  IN /\ BagIn(d, pending)
     /\ pending' = pending (-) SetToBag({d})
     /\ socketIdToPlayerId' = Put(socketIdToPlayerId, d.sock, playerId)
     /\ sessions' = Put(sessions, d.secret, d.sock)
     /\ reverseMap' = Put(reverseMap, d.sock, d.secret)
     /\ timers' = timers \ existingTimer(playerId)
     /\ cleanupTimers' = IF existingTimer(playerId) # {}
                         THEN Del(cleanupTimers, playerId) ELSE cleanupTimers
     /\ out' = OutC(<<action>>, {}, existingTimer(playerId))
     /\ state' = dispatchState(action)
     /\ renderPending' = dispatchRender(action)
     /\ assetsLoaded' = Put(assetsLoaded, playerId, FALSE)
     /\ pendingWelcome' = Put(pendingWelcome, d.sock,
                              [playerId |-> playerId, isReconnect |-> existingPlayer])
     /\ lastEvent' = Put(lastEvent, playerId, "joined")
     /\ closedReg' = {e \in closedReg : e.secret # d.secret}
     /\ UNCHANGED <<status, welcomedClients, actionQueue, rateLimits, stateRef,
                    broadcastTimer, mounted, now, msgs, joinSeen, dupSeen, tcp, mw, wire, red, bc, rp, ts>>

\* server.on("disconnect"): the close event of a socket that had an id
Disconnect(s) ==
  LET known == Has(socketIdToPlayerId, s) /\ Has(reverseMap, s)
      playerId == socketIdToPlayerId[s]
      secret == reverseMap[s]
      active == known /\ Has(sessions, secret) /\ sessions[secret] = s
      action == Act(InternalActionTypes.PLAYER_LEFT, playerId, UNDEF, UNDEF)
      timer == [playerId |-> playerId, secret |-> secret, sock |-> s]
  IN /\ status[s] \in {"open", "closing"}
     /\ status' = [status EXCEPT ![s] = "closed"]
     /\ welcomedClients' = welcomedClients \ {s}
     /\ socketIdToPlayerId' = Del(socketIdToPlayerId, s)
     /\ reverseMap' = Del(reverseMap, s)
     /\ rateLimits' = Del(rateLimits, s)
     /\ assetsLoaded' = IF known THEN Del(assetsLoaded, playerId) ELSE assetsLoaded
     /\ IF active
        THEN /\ state' = dispatchState(action)
             /\ renderPending' = dispatchRender(action)
             /\ timers' = timers \cup {timer}
             /\ cleanupTimers' = Put(cleanupTimers, playerId, timer)
             /\ out' = Out(<<action>>, {})
             /\ lastEvent' = Put(lastEvent, playerId, "left")
        ELSE /\ out' = NoOut
             /\ UNCHANGED <<state, renderPending, timers, cleanupTimers, lastEvent>>
     /\ closedReg' = closedReg \cup {[secret |-> x, sock |-> s] : x \in {y \in DOMAIN sessions : sessions[y] = s}}
     /\ UNCHANGED <<pending, sessions, pendingWelcome, actionQueue, stateRef,
                    broadcastTimer, mounted, now, msgs, joinSeen, dupSeen, tcp, mw, wire, red, bc, rp, ts>>

\* the callback of a grace timer
TimerFire(t) ==
  LET action == Act(InternalActionTypes.PLAYER_REMOVED, t.playerId, UNDEF, UNDEF)
  IN /\ t \in timers
     /\ timers' = timers \ {t}
     /\ cleanupTimers' = Del(cleanupTimers, t.playerId)
     /\ sessions' = Del(sessions, t.secret)
     /\ state' = dispatchState(action)
     /\ renderPending' = dispatchRender(action)
     /\ out' = Out(<<action>>, {})
     /\ closedReg' = {e \in closedReg : e.secret # t.secret}
     /\ UNCHANGED <<status, pending, reverseMap, socketIdToPlayerId, welcomedClients,
                    pendingWelcome, assetsLoaded, actionQueue, rateLimits, stateRef,
                    broadcastTimer, mounted, now, msgs, joinSeen, dupSeen, lastEvent, tcp, mw, wire, red, bc, rp, ts>>

\* a WELCOME / RECONNECTED message: payload.playerId and payload.state
Welcome(to, type, playerId, st) ==
  [to |-> to, type |-> type, code |-> UNDEF, playerId |-> playerId, state |-> st]

\* the WELCOME / RECONNECTED message queued for socket s; state is the state
\* of the render whose effect sends it
welcomeMsg(s) ==
  Welcome(s, IF pendingWelcome[s].isReconnect THEN "RECONNECTED" ELSE "WELCOME",
          pendingWelcome[s].playerId, state)

\* React renders the queued updates and runs the effects that depend on state:
\* stateRef.current = state, the WELCOME flush, and the re-arming of the
\* broadcast timer
Commit ==
  /\ mounted
  /\ renderPending
  /\ renderPending' = FALSE
  /\ stateRef' = state
  /\ welcomedClients' = welcomedClients \cup DOMAIN pendingWelcome
  /\ pendingWelcome' = EmptyMap
  /\ broadcastTimer' = TRUE
  /\ out' = Out(<< >>, send({welcomeMsg(s) : s \in DOMAIN pendingWelcome}))
  /\ UNCHANGED <<status, pending, sessions, reverseMap, socketIdToPlayerId, cleanupTimers,
                 timers, assetsLoaded, actionQueue, rateLimits, state, mounted, now,
                 msgs, joinSeen, dupSeen, closedReg, lastEvent, tcp, mw, wire, red, bc, rp, ts>>

\* the form of the action field of a STATE_UPDATE
actionField(actions) ==
  IF Len(actions) = 1 THEN "single" ELSE IF Len(actions) > 1 THEN "array" ELSE "omitted"

\* the STATE_UPDATE message: payload.newState, and payload.action in the form
\* named by code (tagged lists the actions it holds)
StateUpdate(to, newState, actions) ==
  [to |-> to, type |-> "STATE_UPDATE", code |-> actionField(actions), playerId |-> UNDEF,
   newState |-> newState, tagged |-> actions]

\* broadcastState: the debounce timer fires
BroadcastFire ==
  /\ broadcastTimer
  /\ broadcastTimer' = FALSE
  /\ actionQueue' = << >>
  /\ out' = Out(<< >>, {StateUpdate(s, stateRef, actionQueue) : s \in clients})
  /\ UNCHANGED <<status, pending, registry, state, stateRef, renderPending, mounted,
                 now, msgs, joinSeen, dupSeen, closedReg, lastEvent, tcp, mw, wire, red, bc, rp, ts>>

\* the provider unmounts: the effect cleanups stop the server, clear the
\* registered grace timers and the broadcast timer
Unmount ==
  /\ mounted
  /\ mounted' = FALSE
  /\ status' = [s \in Sockets |-> IF status[s] = "open" THEN "closing" ELSE status[s]]
  /\ timers' = timers \ {cleanupTimers[p] : p \in DOMAIN cleanupTimers}
  /\ cleanupTimers' = EmptyMap
  /\ broadcastTimer' = FALSE
  /\ out' = OutC(<< >>, {}, {cleanupTimers[p] : p \in DOMAIN cleanupTimers})
  /\ UNCHANGED <<pending, sessions, reverseMap, socketIdToPlayerId, welcomedClients,
                 pendingWelcome, assetsLoaded, actionQueue, rateLimits, state, stateRef,
                 renderPending, now, msgs, joinSeen, dupSeen, closedReg, lastEvent, tcp, mw, wire, red, bc, rp, ts>>

\* time passes
Tick ==
  /\ now < MaxTime
  /\ now' = now + (RATE_LIMIT_WINDOW \div 2)
  /\ out' = NoOut
  /\ UNCHANGED <<status, pending, registry, actionQueue, state, stateRef, renderPending,
                 broadcastTimer, mounted, msgs, joinSeen, dupSeen, closedReg, lastEvent, tcp, mw, wire, red, bc, rp, ts>>

---------------------------------------------------------------------------
(* The host's session registry: connections, JOINs, disconnects, grace      *)
(* timers, renders and the unmount                                          *)

Next ==
  \/ \E s \in Sockets : Connect(s)
  \/ \E s \in Sockets, m \in RegistryMsgs : msgs < MaxMsgs /\ RecvMessage(s, m)
  \/ \E d \in BagToSet(pending) : ResolveJoin(d)
  \/ \E s \in Sockets : Disconnect(s)
  \/ \E t \in timers : TimerFire(t)
  \/ Commit
  \/ Unmount

Spec == Init /\ [][Next]_vars

(* The running host under the scheduling of the event loop: a timer that    *)
(* stays armed fires, a queued render commits                               *)

\* the grace timers a host started on an empty lobby can arm
AllTimers == {[playerId |-> derivePlayerId(x), secret |-> x, sock |-> k] : x \in Secrets, k \in Sockets}

NextLive ==
  \/ \E s \in Sockets : Connect(s)
  \/ \E s \in Sockets, m \in RegistryMsgs : msgs < MaxMsgs /\ RecvMessage(s, m)
  \/ \E d \in BagToSet(pending) : ResolveJoin(d)
  \/ \E s \in Sockets : Disconnect(s)
  \/ \E t \in timers : TimerFire(t)
  \/ Commit

SpecLive ==
  /\ InitLobby
  /\ [][NextLive]_vars
  /\ \A t \in AllTimers : WF_vars(TimerFire(t))
  /\ WF_vars(Commit)

(* The running host over longer histories: up to MaxJoins JOINs             *)

NextDeep ==
  \/ \E s \in Sockets : Connect(s)
  \/ \E s \in Sockets, m \in RegistryMsgs : msgs < MaxJoins /\ RecvMessage(s, m)
  \/ \E d \in BagToSet(pending) : ResolveJoin(d)
  \/ \E s \in Sockets : Disconnect(s)
  \/ \E t \in timers : TimerFire(t)
  \/ Commit

SpecDeep == InitLobby /\ [][NextDeep]_vars

(* The running host while clients also report their assets loaded          *)

AssetsMsgs == {m \in OtherMsgs : m.type = "ASSETS_LOADED" /\ m.isTrue}

NextAssets ==
  \/ \E s \in Sockets : Connect(s)
  \/ \E s \in Sockets, m \in RegistryMsgs \cup AssetsMsgs :
       msgs < MaxJoins /\ RecvMessage(s, m)
  \/ \E d \in BagToSet(pending) : ResolveJoin(d)
  \/ \E s \in Sockets : Disconnect(s)
  \/ \E t \in timers : TimerFire(t)
  \/ Commit

SpecAssets == InitLobby /\ [][NextAssets]_vars

(* The message handler of the running host on every kind of parsed message, *)
(* while the connections stay open                                          *)

NextMsg ==
  \/ \E s \in Sockets : Connect(s)
  \/ \E s \in Sockets, m \in Messages : msgs < MaxMsgs /\ RecvMessage(s, m)
  \/ \E d \in BagToSet(pending) : ResolveJoin(d)
  \/ Commit
  \/ BroadcastFire

SpecMsg == InitLobby /\ [][NextMsg]_vars

(* The same host under the scheduling of the event loop: a queued render    *)
(* commits, an armed broadcast timer fires                                  *)

SpecMsgLive ==
  /\ InitLobby
  /\ [][NextMsg]_vars
  /\ WF_vars(Commit)
  /\ WF_vars(BroadcastFire)

(* A burst of ACTIONs: socket 1 sends up to MaxBurst actions per window,    *)
(* the other sockets up to MaxMsgs between them                             *)

burstCount(s) == IF Has(rateLimits, s) THEN rateLimits[s].count ELSE 0

RECURSIVE sumCount(_)
sumCount(S) ==
  IF S = {} THEN 0
  ELSE LET s == CHOOSE x \in S : TRUE IN burstCount(s) + sumCount(S \ {s})

burstRoom(s) ==
  \/ s = 1 /\ burstCount(s) < MaxBurst
  \/ s # 1 /\ sumCount(Sockets \ {1}) < MaxMsgs
  \/ Has(rateLimits, s) /\ now - rateLimits[s].windowStart > RATE_LIMIT_WINDOW

NextRate ==
  \/ \E s \in Sockets : Connect(s)
  \/ \E s \in Sockets, m \in BurstMsgs : burstRoom(s) /\ RecvMessage(s, m)
  \/ Tick

SpecRate == InitLobby /\ [][NextRate]_vars

---------------------------------------------------------------------------
(* One TCP connection of the WebSocket server. The client's bytes arrive in  *)
(* data events of any size; data events that were in flight when the socket  *)
(* was destroyed are still delivered until the close event.                  *)

MaxFrames == 2

\* a masking key
KEY == <<1, 2, 3, 4>>

\* header blocks: with the key line, without it, with a byte that is not
\* UTF-8 in a header value, with a two-byte UTF-8 character in a header value
Handshakes ==
  {<<KEYLINE>> \o CRLFCRLF,
   <<71>> \o CRLFCRLF,
   <<KEYLINE, 255>> \o CRLFCRLF,
   <<KEYLINE, 195, 169>> \o CRLFCRLF}

\* text frames: "1" masked, "2" with a 16-bit length
TextFrames ==
  {maskedFrame(OPCODE.TEXT, <<49>>, KEY),
   <<129, 126, 0, 1, 50>>}

\* frames the server discards: text "{" (no JSON), binary, pong, opcode 3
NonFatalFrames == {<<129, 1, 123>>, <<130, 0>>, <<138, 0>>, <<131, 0>>}

PingFrame == <<137, 1, 55>>

CloseFrame == <<136, 0>>

\* a text frame that announces 2^32 bytes
OversizedFrame == <<129, 127, 0, 0, 0, 1, 0, 0, 0, 0>>

ClientFrames == TextFrames \cup NonFatalFrames \cup {PingFrame, CloseFrame, OversizedFrame}

RECURSIVE FrameSeqs(_)
FrameSeqs(n) ==
  IF n = 0 THEN {<< >>}
  ELSE FrameSeqs(n - 1) \cup {fs \o f : fs \in FrameSeqs(n - 1), f \in ClientFrames}

Streams == {h \o fs : h \in Handshakes, fs \in FrameSeqs(MaxFrames)}

\* the bytes delivered so far
received == SubSeq(tcp.stream, 1, tcp.pos)

\* TcpSocket.createServer((socket) => ...): a connection is accepted
Accept(stream) ==
  /\ tcp.phase = "none"
  /\ tcp' = [phase |-> "open", stream |-> stream, pos |-> 0, sock |-> NewSocket]
  /\ UNCHANGED <<status, pending, registry, actionQueue, state, stateRef, renderPending,
                 broadcastTimer, mounted, now, msgs, out, joinSeen, dupSeen, closedReg,
                 lastEvent, mw, wire, red, bc, rp, ts>>

\* a data event with the next n bytes. An exception that leaves the handler
\* is uncaught: the process goes on, or it ends (fatal).
Data(n) ==
  LET data == SubSeq(tcp.stream, tcp.pos + 1, tcp.pos + n)
      after == onData([tcp.sock EXCEPT !.threw = FALSE], data)
  IN /\ tcp.phase = "open"
     /\ tcp.pos + n <= Len(tcp.stream)
     /\ \E fatal \in {FALSE, after.threw} :
          tcp' = [tcp EXCEPT !.pos = @ + n, !.sock = after,
                            !.phase = IF fatal THEN "crashed" ELSE "open"]
     /\ UNCHANGED <<status, pending, registry, actionQueue, state, stateRef, renderPending,
                    broadcastTimer, mounted, now, msgs, out, joinSeen, dupSeen, closedReg,
                    lastEvent, mw, wire, red, bc, rp, ts>>

\* the close event of the socket
Close ==
  /\ tcp.phase = "open"
  /\ tcp' = [tcp EXCEPT !.phase = "closed", !.sock = onClose(@)]
  /\ UNCHANGED <<status, pending, registry, actionQueue, state, stateRef, renderPending,
                 broadcastTimer, mounted, now, msgs, out, joinSeen, dupSeen, closedReg,
                 lastEvent, mw, wire, red, bc, rp, ts>>

NextCodec ==
  \/ \E stream \in Streams : Accept(stream)
  \/ \E n \in 1..Len(tcp.stream) : Data(n)
  \/ Close

SpecCodec == InitLobby /\ [][NextCodec]_vars

---------------------------------------------------------------------------
(* Frames put together and decoded: the server builds a frame for a payload, *)
(* or a client masks one, and decodeFrame reads it.                          *)

MaxSeed == 2

MaxPayload == 5

\* the payload lengths around the three length forms
BoundaryLengths == {0, 1, 125, 126, 65535, 65536}

\* a payload of a given length, its bytes running through 0..255
payloadOf(length, seed) == [i \in 1..length |-> (seed * 101 + i * (2 * seed + 1)) % 256]

BuildPayloads == {payloadOf(length, seed) : length \in BoundaryLengths, seed \in 0..MaxSeed}

MaskPayloads == {payloadOf(length, seed) : length \in 0..MaxPayload, seed \in 0..MaxSeed}

ByteSamples == {0, 1, 127, 128, 255}

Keys == {<<a, b, 255 - a, (a + b) % 256>> : a \in ByteSamples, b \in ByteSamples}

\* the opcodes the server builds frames for (text, pong), and the others
Opcodes == {OPCODE[k] : k \in DOMAIN OPCODE}

\* this.buildFrame(opcode, payload)
Build(opcode, payload) ==
  /\ wire.kind = "none"
  /\ wire' = [kind |-> "frame", masked |-> FALSE, opcode |-> opcode, payload |-> payload,
              key |-> << >>, frame |-> buildFrame(opcode, payload), decoded |-> FrameNull]
  /\ UNCHANGED <<status, pending, registry, actionQueue, state, stateRef, renderPending,
                 broadcastTimer, mounted, now, msgs, out, joinSeen, dupSeen, closedReg,
                 lastEvent, tcp, mw, red, bc, rp, ts>>

\* a client masks a frame with a key
Mask(opcode, payload, key) ==
  /\ wire.kind = "none"
  /\ wire' = [kind |-> "frame", masked |-> TRUE, opcode |-> opcode, payload |-> payload,
              key |-> key, frame |-> maskedFrame(opcode, payload, key), decoded |-> FrameNull]
  /\ UNCHANGED <<status, pending, registry, actionQueue, state, stateRef, renderPending,
                 broadcastTimer, mounted, now, msgs, out, joinSeen, dupSeen, closedReg,
                 lastEvent, tcp, mw, red, bc, rp, ts>>

\* this.decodeFrame(buffer) on the frame
Decode ==
  /\ wire.kind = "frame"
  /\ wire' = [wire EXCEPT !.kind = "decoded", !.decoded = decodeFrame(wire.frame)]
  /\ UNCHANGED <<status, pending, registry, actionQueue, state, stateRef, renderPending,
                 broadcastTimer, mounted, now, msgs, out, joinSeen, dupSeen, closedReg,
                 lastEvent, tcp, mw, red, bc, rp, ts>>

NextWire ==
  \/ \E opcode \in Opcodes, payload \in BuildPayloads : Build(opcode, payload)
  \/ \E opcode \in Opcodes, payload \in MaskPayloads, key \in Keys : Mask(opcode, payload, key)
  \/ Decode

SpecWire == InitLobby /\ [][NextWire]_vars

---------------------------------------------------------------------------
(* A reducer wrapped by applyMiddleware: the chain is composed once, then    *)
(* actions are dispatched, each on the state the last dispatch returned.     *)

MaxChain == 3

MaxDispatches == 2

RECURSIVE ChainsUpTo(_)
ChainsUpTo(n) ==
  IF n = 0 THEN {<< >>}
  ELSE ChainsUpTo(n - 1) \cup {Append(c, k) : c \in ChainsUpTo(n - 1), k \in MwKinds}

Chains == ChainsUpTo(MaxChain)

\* applyMiddleware(...middlewares)(reducer)
ApplyMiddleware(chain) ==
  /\ mw.phase = "none"
  /\ mw' = [mw EXCEPT !.phase = "ready", !.chain = chain]
  /\ UNCHANGED <<status, pending, registry, actionQueue, state, stateRef, renderPending,
                 broadcastTimer, mounted, now, msgs, out, joinSeen, dupSeen, closedReg,
                 lastEvent, tcp, wire, red, bc, rp, ts>>

\* enhanced(state, action), on the state of the last dispatch
DispatchAction(action) ==
  LET done == enhanced(mw.chain, mw.res, action)
  IN /\ mw.phase = "ready"
     /\ mw.dispatches < MaxDispatches
     /\ mw' = [mw EXCEPT !.dispatches = @ + 1, !.given = mw.res, !.action = action,
                         !.res = done.res, !.calls = done.ctx.calls,
                         !.trace = done.ctx.trace]
     /\ UNCHANGED <<status, pending, registry, actionQueue, state, stateRef, renderPending,
                    broadcastTimer, mounted, now, msgs, out, joinSeen, dupSeen, closedReg,
                    lastEvent, tcp, wire, red, bc, rp, ts>>

NextMw ==
  \/ \E chain \in Chains : ApplyMiddleware(chain)
  \/ \E action \in MwActions : DispatchAction(action)

SpecMw == InitLobby /\ [][NextMw]_vars

---------------------------------------------------------------------------
(* A reducer wrapped by applyMiddleware with actionValidator layers, alone   *)
(* or next to tracking middlewares, given user and internal actions.         *)

ValidatorChains ==
  LET kinds == ValidatorKinds \cup {"track"}
  IN {<<k>> : k \in ValidatorKinds} \cup
     {<<j, k>> : j \in kinds, k \in ValidatorKinds} \cup
     {<<j, k>> : j \in ValidatorKinds, k \in kinds}

ValidatorActions ==
  MwActions \cup
  {Act(InternalActionTypes.HYDRATE, UNDEF, UNDEF, UNDEF),
   Act(InternalActionTypes.PLAYER_JOINED, "h1", "Ann", UNDEF),
   Act(InternalActionTypes.PLAYER_LEFT, "h1", UNDEF, UNDEF),
   Act(InternalActionTypes.PLAYER_RECONNECTED, "h1", UNDEF, UNDEF),
   Act(InternalActionTypes.PLAYER_REMOVED, "h1", UNDEF, UNDEF)}

NextValidator ==
  \/ \E chain \in ValidatorChains : ApplyMiddleware(chain)
  \/ \E action \in ValidatorActions : DispatchAction(action)

SpecValidator == InitLobby /\ [][NextValidator]_vars

---------------------------------------------------------------------------
(* A reducer made by createGameReducer: an application reducer is wrapped,   *)
(* then actions are reduced, each on the state the last call returned.       *)

MaxReductions == 3

ReducerPlayers == {"h1", "h2"}

\* states a HYDRATE may carry
HydratePayloads ==
  {HydratePayload,
   [players |-> [p \in {"h2"} |-> [id |-> "h2", name |-> "Bob", avatar |-> UNDEF,
                                   isHost |-> TRUE, connected |-> TRUE]],
    count |-> 2]}

ReducerActions ==
  {Action(t, UNDEF, UNDEF, UNDEF, HydratePayload, UNDEF) : t \in UserTypes} \cup
  {Action(InternalActionTypes.HYDRATE, UNDEF, UNDEF, UNDEF, payload, UNDEF) :
     payload \in HydratePayloads} \cup
  {Action(InternalActionTypes.PLAYER_JOINED, "h1", "Ann", avatar, HydratePayload, UNDEF) :
     avatar \in {UNDEF, "cat"}} \cup
  {Action(InternalActionTypes.PLAYER_JOINED, "h2", "Bob", UNDEF, HydratePayload, UNDEF)} \cup
  {Action(t, p, UNDEF, UNDEF, HydratePayload, UNDEF) :
     t \in {InternalActionTypes.PLAYER_LEFT, InternalActionTypes.PLAYER_RECONNECTED,
            InternalActionTypes.PLAYER_REMOVED},
     p \in ReducerPlayers}

\* createGameReducer(reducer)
CreateGameReducer(reducer) ==
  /\ red.phase = "none"
  /\ red' = [red EXCEPT !.phase = "ready", !.reducer = reducer]
  /\ UNCHANGED <<status, pending, registry, actionQueue, state, stateRef, renderPending,
                 broadcastTimer, mounted, now, msgs, out, joinSeen, dupSeen, closedReg,
                 lastEvent, tcp, mw, wire, bc, rp, ts>>

\* reducer(state, action), on the state the last call returned
Reduce(action) ==
  /\ red.phase = "ready"
  /\ red.reductions < MaxReductions
  /\ red' = [red EXCEPT !.reductions = @ + 1, !.given = red.res.state,
                        !.action = action,
                        !.res = wrapped(red.reducer, red.res.state, action)]
  /\ UNCHANGED <<status, pending, registry, actionQueue, state, stateRef, renderPending,
                 broadcastTimer, mounted, now, msgs, out, joinSeen, dupSeen, closedReg,
                 lastEvent, tcp, mw, wire, bc, rp, ts>>

NextReducer ==
  \/ \E reducer \in UserReducers : CreateGameReducer(reducer)
  \/ \E action \in ReducerActions : Reduce(action)

SpecReducer == InitLobby /\ [][NextReducer]_vars

---------------------------------------------------------------------------
(* The clients table of a server: sockets are registered in the order they   *)
(* connect, and a message is broadcast while the write to some of them fails *)

MaxClients == 3

MaxBroadcasts == 2

SocketIds == {"a", "b", "c"}

Servers == {"tcp", "nitro"}

\* TcpSocket's write returns no promise
Failures(server) == IF server = "tcp" THEN {"ok", "throws"} ELSE {"ok", "throws", "rejects"}

\* new GameWebSocketServer(config).start()
Start(server) ==
  /\ bc.server = "none"
  /\ bc' = [bc EXCEPT !.server = server]
  /\ UNCHANGED <<status, pending, registry, actionQueue, state, stateRef, renderPending,
                 broadcastTimer, mounted, now, msgs, out, joinSeen, dupSeen, closedReg,
                 lastEvent, tcp, mw, wire, red, rp, ts>>

\* this.clients.set(socketId, socket)
Register(id) ==
  /\ bc.server # "none"
  /\ Len(bc.clients) < MaxClients
  /\ \A i \in 1..Len(bc.clients) : bc.clients[i] # id
  /\ bc' = [bc EXCEPT !.clients = Append(@, id)]
  /\ UNCHANGED <<status, pending, registry, actionQueue, state, stateRef, renderPending,
                 broadcastTimer, mounted, now, msgs, out, joinSeen, dupSeen, closedReg,
                 lastEvent, tcp, mw, wire, red, rp, ts>>

\* server.broadcast(data, excludeId)
Broadcast(excludeId, failure) ==
  /\ bc.server # "none"
  /\ bc.clients # << >>
  /\ bc.broadcasts < MaxBroadcasts
  /\ bc' = [bc EXCEPT !.broadcasts = @ + 1, !.failure = failure, !.excludeId = excludeId,
                      !.res = IF bc.server = "tcp"
                              THEN broadcast(bc.clients, excludeId, failure)
                              ELSE broadcastNitro(bc.clients, excludeId, failure)]
  /\ UNCHANGED <<status, pending, registry, actionQueue, state, stateRef, renderPending,
                 broadcastTimer, mounted, now, msgs, out, joinSeen, dupSeen, closedReg,
                 lastEvent, tcp, mw, wire, red, rp, ts>>

NextBroadcast ==
  \/ \E server \in Servers : Start(server)
  \/ \E id \in SocketIds : Register(id)
  \/ \E excludeId \in SocketIds \cup {UNDEF} :
       \E failure \in [{bc.clients[i] : i \in 1..Len(bc.clients)} -> Failures(bc.server)] :
         Broadcast(excludeId, failure)

SpecBroadcast == InitLobby /\ [][NextBroadcast]_vars

---------------------------------------------------------------------------
(* A session is recorded action by action, then the recording is replayed     *)
(* twice with the same reducer.                                               *)

MaxActions == 2

MaxStamp == 2

\* timestamps are milliseconds; an absent endTimestamp is written as 0
Stamps == 0..MaxStamp

RecordedActions ==
  {RecordedAction(t, FALSE, 0, at) :
     t \in {"INCREMENT", "DECREMENT", "SET", "RESET"}, at \in Stamps} \cup
  {RecordedAction("SET", TRUE, 2, at) : at \in Stamps}

\* the application starts to record a session
StartRecording(startTimestamp) ==
  /\ rp.phase = "none"
  /\ rp' = [rp EXCEPT !.phase = "recording",
                      !.recording = Recording(replayInitialState, << >>,
                                              startTimestamp, FALSE, 0)]
  /\ UNCHANGED <<status, pending, registry, actionQueue, state, stateRef, renderPending,
                 broadcastTimer, mounted, now, msgs, out, joinSeen, dupSeen, closedReg,
                 lastEvent, tcp, mw, wire, red, bc, ts>>

\* an action is recorded with its timestamp
RecordAction(recorded) ==
  /\ rp.phase = "recording"
  /\ Len(rp.recording.actions) < MaxActions
  /\ rp' = [rp EXCEPT !.recording.actions = Append(@, recorded)]
  /\ UNCHANGED <<status, pending, registry, actionQueue, state, stateRef, renderPending,
                 broadcastTimer, mounted, now, msgs, out, joinSeen, dupSeen, closedReg,
                 lastEvent, tcp, mw, wire, red, bc, ts>>

\* the recording ends, with or without an endTimestamp
StopRecording(hasEnd, endTimestamp) ==
  /\ rp.phase = "recording"
  /\ ~hasEnd => endTimestamp = 0
  /\ rp' = [rp EXCEPT !.phase = "recorded", !.recording.hasEnd = hasEnd,
                      !.recording.endTimestamp = endTimestamp]
  /\ UNCHANGED <<status, pending, registry, actionQueue, state, stateRef, renderPending,
                 broadcastTimer, mounted, now, msgs, out, joinSeen, dupSeen, closedReg,
                 lastEvent, tcp, mw, wire, red, bc, ts>>

\* replayActions(recording, testReducer)
Replay ==
  /\ rp.phase = "recorded"
  /\ rp' = [rp EXCEPT !.phase = "replayed", !.res = replayActions(rp.recording)]
  /\ UNCHANGED <<status, pending, registry, actionQueue, state, stateRef, renderPending,
                 broadcastTimer, mounted, now, msgs, out, joinSeen, dupSeen, closedReg,
                 lastEvent, tcp, mw, wire, red, bc, ts>>

\* replayActions(recording, testReducer), a second time
ReplayAgain ==
  /\ rp.phase = "replayed"
  /\ rp' = [rp EXCEPT !.phase = "again", !.again = replayActions(rp.recording)]
  /\ UNCHANGED <<status, pending, registry, actionQueue, state, stateRef, renderPending,
                 broadcastTimer, mounted, now, msgs, out, joinSeen, dupSeen, closedReg,
                 lastEvent, tcp, mw, wire, red, bc, ts>>

NextReplay ==
  \/ \E startTimestamp \in {0, 1} : StartRecording(startTimestamp)
  \/ \E recorded \in RecordedActions : RecordAction(recorded)
  \/ \E hasEnd \in BOOLEAN, endTimestamp \in Stamps : StopRecording(hasEnd, endTimestamp)
  \/ Replay
  \/ ReplayAgain

SpecReplay == InitLobby /\ [][NextReplay]_vars

---------------------------------------------------------------------------
(* The time sync of a client: a probe is sent when the socket opens and at   *)
(* every interval; PONGs arrive late, twice, for unknown ids, or never.      *)
(* Date.now() moves on by one between two probes.                            *)

MaxProbes == MAX_PENDING_PINGS + 2

MaxPongs == 2

MaxClock == 3

\* ids a PONG may name: the first two probes, and an id no probe had
PongIds == {0, 1, 2}

\* server times a PONG may carry: a server behind and a server ahead
ServerTimes == {0, 100}

\* inputs of a direct call of calculateTimeSync
Clock == 0..MaxClock

\* sync(): generateId, Date.now, pings.current.set and socket.send
Probe ==
  /\ ts.phase \in {"none", "open"}
  /\ ts.ids < MaxProbes
  /\ ts' = [ts EXCEPT !.phase = "open", !.ids = @ + 1, !.now = @ + 1,
                      !.op = "sync",
                      !.pings = sync(ts.pings, ts.ids + 1, ts.now)]
  /\ UNCHANGED <<status, pending, registry, actionQueue, state, stateRef, renderPending,
                 broadcastTimer, mounted, now, msgs, out, joinSeen, dupSeen, closedReg,
                 lastEvent, tcp, mw, wire, red, bc, rp>>

\* a PONG message arrives: handlePong(payload)
Pong(id, serverTime) ==
  /\ ts.phase = "open"
  /\ ts.pongs < MaxPongs
  /\ LET payload == [id |-> id, serverTime |-> serverTime]
         done == handlePong(ts.pings, ts.timeSync, ts.now, payload)
     IN ts' = [ts EXCEPT !.pongs = @ + 1, !.op = "pong", !.pong = payload,
                         !.pings = done.pings, !.timeSync = done.timeSync,
                         !.calc = IF done.matched
                                  THEN [send |-> done.sent, receive |-> ts.now,
                                        server |-> serverTime, ran |-> TRUE]
                                  ELSE @]
  /\ UNCHANGED <<status, pending, registry, actionQueue, state, stateRef, renderPending,
                 broadcastTimer, mounted, now, msgs, out, joinSeen, dupSeen, closedReg,
                 lastEvent, tcp, mw, wire, red, bc, rp>>

\* calculateTimeSync called on its own, as its tests do
Calculate(sendTime, receiveTime, serverTime) ==
  /\ ts.phase = "none"
  /\ ts' = [ts EXCEPT !.phase = "called", !.op = "calculate",
                      !.timeSync = calculateTimeSync(sendTime, receiveTime, serverTime),
                      !.calc = [send |-> sendTime, receive |-> receiveTime,
                                server |-> serverTime, ran |-> TRUE]]
  /\ UNCHANGED <<status, pending, registry, actionQueue, state, stateRef, renderPending,
                 broadcastTimer, mounted, now, msgs, out, joinSeen, dupSeen, closedReg,
                 lastEvent, tcp, mw, wire, red, bc, rp>>

NextTime ==
  \/ Probe
  \/ \E id \in PongIds, serverTime \in ServerTimes : Pong(id, serverTime)
  \/ \E sendTime \in Clock, receiveTime \in Clock, serverTime \in Clock :
       Calculate(sendTime, receiveTime, serverTime)

SpecTime == InitLobby /\ [][NextTime]_vars

---------------------------------------------------------------------------
(* Properties *)

\* the types of the actions the last handler dispatched
dispatched(o) == {o.disp[i] : i \in 1..Len(o.disp)}

\* player p is present and marked connected in canonical state st
connected(st, p) == Has(st.players, p) /\ st.players[p].connected

\* open sockets whose cached identity is p
resolvedTo(p) == {s \in Sockets : status[s] = "open" /\ Has(socketIdToPlayerId, s)
                                   /\ socketIdToPlayerId[s] = p}

\* C1: when a JOIN with secret s was received on connection B while the open
\* connection A was registered for s, the close of A dispatches no PLAYER_LEFT
\* for the player and leaves the player connected, in every interleaving of
\* the close with B's derivation.
C1_RaceGuard ==
  [][\A j \in joinSeen :
       (/\ status[j.old] = "open" /\ status'[j.old] = "closed"
        /\ status[j.new] = "open"
        /\ Has(reverseMap, j.old) /\ reverseMap[j.old] = j.secret
        /\ Has(socketIdToPlayerId, j.old))
       => /\ \A a \in dispatched(out') : a.type # InternalActionTypes.PLAYER_LEFT
          /\ connected(state, socketIdToPlayerId[j.old])
               => connected(state', socketIdToPlayerId[j.old])]_vars

\* C2: when no derivation is in flight, a player that no open connection is
\* resolved to is marked connected = false.
C2_DisconnectedWithoutConnection ==
  pending = EmptyBag
    => \A p \in DOMAIN state.players : resolvedTo(p) = {} => ~state.players[p].connected

\* C3: no two open connections are resolved to the same playerId.
C3_OneConnectionPerPlayer ==
  \A s, t \in Sockets :
    (s # t /\ status[s] = "open" /\ status[t] = "open"
       /\ Has(socketIdToPlayerId, s) /\ Has(socketIdToPlayerId, t))
    => socketIdToPlayerId[s] # socketIdToPlayerId[t]

\* C4: no user action is dispatched for a connection without a resolved
\* playerId: every dispatched user action carries the playerId of its sender.
C4_NoActionWithoutPlayer ==
  \A a \in dispatched(out) : a.type \in UserTypes => a.playerId # UNDEF

\* the players of canonical state st that are an identity of the secret
identitiesOf(st, secret) ==
  {derivePlayerId(secret), derivePlayerIdLegacy(secret)} \cap DOMAIN st.players

\* the registered connections that can close
ClosedRegs == [secret : Secrets, sock : Sockets]

\* the last handler dispatched a join for an identity of the secret
joinResolved(secret) ==
  \E p \in {derivePlayerId(secret), derivePlayerIdLegacy(secret)} :
    \/ out.disp = <<Act(InternalActionTypes.PLAYER_RECONNECTED, p, UNDEF, UNDEF)>>
    \/ \E n \in {"Ann"} : out.disp = <<Act(InternalActionTypes.PLAYER_JOINED, p, n, UNDEF)>>

\* the last handler dispatched PLAYER_REMOVED for an identity of the secret,
\* no identity of the secret is a key of players and the session entry of
\* the secret is dropped
removedFor(secret) ==
  /\ \E p \in {derivePlayerId(secret), derivePlayerIdLegacy(secret)} :
       out.disp = <<Act(InternalActionTypes.PLAYER_REMOVED, p, UNDEF, UNDEF)>>
  /\ identitiesOf(state, secret) = {}
  /\ ~Has(sessions, secret)

\* C5: once the connection registered for a secret has closed, either a JOIN
\* for the secret resolves, or PLAYER_REMOVED is eventually dispatched for its
\* player, the player is no longer a key of players and the session entry of
\* the secret is dropped.
C5_RemovedAfterGrace ==
  /\ \A e \in ClosedRegs : (e \in closedReg) ~> (e \notin closedReg)
  /\ [][\A e \in closedReg :
         e \notin closedReg' => (joinResolved(e.secret)' \/ removedFor(e.secret)')]_vars

\* C6: a JOIN that resolves to a player cancels the player's grace timer: a
\* grace timer is armed only for a player whose last registry event is a
\* disconnect, and PLAYER_REMOVED is dispatched only for such a player, so no
\* removal follows a resolved JOIN unless the player's connection disconnects
\* again afterwards.
C6_TimerCancelledOnJoin ==
  /\ \A t \in timers : Has(lastEvent, t.playerId) /\ lastEvent[t.playerId] = "left"
  /\ \A a \in dispatched(out) :
       a.type = InternalActionTypes.PLAYER_REMOVED
         => Has(lastEvent, a.target) /\ lastEvent[a.target] = "left"

\* a JOIN resolved to a disconnected player while its grace timer was armed
\* and cancelled it
C6_Witness ==
  \E t \in out.cleared :
    /\ out.disp = <<Act(InternalActionTypes.PLAYER_RECONNECTED, t.playerId, UNDEF, UNDEF)>>
    /\ t \notin timers
    /\ ~Has(cleanupTimers, t.playerId)
    /\ connected(state, t.playerId)
    /\ lastEvent[t.playerId] = "joined"
    /\ status[t.sock] = "closed"
    /\ \E s \in resolvedTo(t.playerId) : sessions[t.secret] = s

\* C7: when a second JOIN of a connection arrived before the first one's
\* derivation resolved and the connection is still open, then after both have
\* resolved players holds exactly one entry for the identity of the secret and
\* the session table registers exactly that connection for the secret.
C7_NoDuplicateIdentity ==
  [][\A d \in dupSeen :
       (BagIn(d, pending) /\ ~BagIn(d, pending') /\ status[d.sock] = "open")
       => /\ Cardinality(identitiesOf(state', d.secret)) = 1
          /\ Has(sessions', d.secret) /\ sessions'[d.secret] = d.sock]_vars

\* the ACTIONs that carry one of the five reserved types
ReservedMsgs ==
  {m \in ActionMsgs : m.atype \in {"__HYDRATE__", "__PLAYER_JOINED__", "__PLAYER_LEFT__",
                                    "__PLAYER_RECONNECTED__", "__PLAYER_REMOVED__"}}

\* C8: an ACTION whose type is one of the five reserved internal types is
\* answered with ERROR FORBIDDEN_ACTION on its connection, dispatches nothing,
\* leaves canonical state unchanged and is not added to the action queue.
C8_ForbiddenAction ==
  [][\A s \in Sockets, m \in ReservedMsgs :
       RecvMessage(s, m)
       => /\ out' = Out(<< >>, {ErrorMsg(s, "FORBIDDEN_ACTION")})
          /\ state' = state
          /\ actionQueue' = actionQueue
          /\ renderPending' = renderPending]_vars

\* a reserved-type ACTION aimed at a joined player was rejected
C8_Witness ==
  \E s \in Sockets :
    /\ out = Out(<< >>, {ErrorMsg(s, "FORBIDDEN_ACTION")})
    /\ connected(state, "h1")
    /\ actionQueue = << >>

\* the actions applied for socket s when its whole burst lies in one window
appliedOf(s) == IF burstCount(s) > 60 THEN 60 ELSE burstCount(s)

RECURSIVE sumApplied(_)
sumApplied(S) ==
  IF S = {} THEN 0
  ELSE LET s == CHOOSE x \in S : TRUE IN appliedOf(s) + sumApplied(S \ {s})

\* C9: of the ACTIONs of one connection within one rate-limit window the first
\* 60 are applied in order, the 61st and later ones are answered with
\* RATE_LIMITED and not applied, and the count restarts exactly when the
\* window has elapsed.
C9_RateLimit ==
  /\ [](now = 0 => state.count = sumApplied(Sockets))
  /\ [][\A s \in Sockets, m \in BurstMsgs :
         RecvMessage(s, m) =>
           LET elapsed == ~Has(rateLimits, s)
                            \/ now - rateLimits[s].windowStart > RATE_LIMIT_WINDOW
               k == IF elapsed THEN 1 ELSE rateLimits[s].count + 1
               pid == IF Has(socketIdToPlayerId, s) THEN socketIdToPlayerId[s] ELSE UNDEF
           IN /\ rateLimits'[s].count = k
              /\ rateLimits'[s].windowStart = (IF elapsed THEN now ELSE rateLimits[s].windowStart)
              /\ IF k <= 60
                 THEN /\ out' = Out(<<Act(m.atype, m.target, UNDEF, pid)>>, {})
                      /\ state'.count = state.count + 1
                      /\ actionQueue' = Append(actionQueue, Act(m.atype, m.target, UNDEF, UNDEF))
                 ELSE /\ out' = Out(<< >>, {ErrorMsg(s, "RATE_LIMITED")})
                      /\ state' = state
                      /\ actionQueue' = actionQueue]_vars

\* the 61st action of a window was rejected after 60 were applied
C9_Witness ==
  /\ Has(rateLimits, 1) /\ rateLimits[1].count = 61
  /\ out = Out(<< >>, {ErrorMsg(1, "RATE_LIMITED")})
  /\ state.count = 60
  /\ Len(actionQueue) = 60

\* the messages that fail validation
MalformedMsgs == {m \in Messages : ~isValidClientMessage(m)}

\* the valid JOINs whose secret is missing or fails the format check
BadSecretMsgs ==
  {m \in Messages : /\ isValidClientMessage(m) /\ m.type = "JOIN"
                    /\ (m.secret = UNDEF \/ ~isValidSecret(m.secret))}

\* C10: a message that fails validation, and a JOIN whose secret is missing or
\* fails the format check, is answered with exactly one ERROR (INVALID_MESSAGE,
\* respectively INVALID_SECRET) on its own connection, dispatches nothing and
\* leaves canonical state, the session tables, the derivations in flight and
\* the connections unchanged.
C10_MessageErrorsNonFatal ==
  [][\A s \in Sockets, m \in MalformedMsgs \cup BadSecretMsgs :
       RecvMessage(s, m)
       => /\ out' = Out(<< >>, {ErrorMsg(s, IF m \in BadSecretMsgs THEN "INVALID_SECRET"
                                                                  ELSE "INVALID_MESSAGE")})
          /\ UNCHANGED <<state, renderPending, actionQueue, registry, pending, status>>]_vars

\* a registered, open connection got INVALID_SECRET and is still registered
C10_Witness ==
  \E s \in Sockets :
    /\ out = Out(<< >>, {ErrorMsg(s, "INVALID_SECRET")})
    /\ status[s] = "open"
    /\ Has(socketIdToPlayerId, s)
    /\ connected(state, socketIdToPlayerId[s])

---------------------------------------------------------------------------
(* Frame codec properties *)

\* number of bytes up to and including the first blank line of the raw bytes,
\* or -1 when the header block is not complete
headerEnd(bytes) ==
  LET hits == {i \in 1..(Len(bytes) - 3) : SubSeq(bytes, i, i + 3) = CRLFCRLF}
  IN IF hits = {} THEN -1 ELSE (CHOOSE i \in hits : \A j \in hits : i <= j) + 3

\* the offsets of bytes at which a frame starts, from offset off on
RECURSIVE boundaries(_, _)
boundaries(bytes, off) ==
  LET frame == decodeFrame(slice(bytes, off))
  IN {off} \cup (IF frame.kind = "frame" THEN boundaries(bytes, off + frame.bytesConsumed)
                 ELSE {})

\* the frame boundaries of the bytes delivered so far
frameBoundaries ==
  IF headerEnd(received) = -1 THEN {} ELSE boundaries(received, headerEnd(received))

IsMessage(e) == e.ev = "message"

IsDelivery(e) == e.ev \in {"message", "write"}

messagesOf(sock) == SelectSeq(sock.log, IsMessage)

deliveriesOf(sock) == SelectSeq(sock.log, IsDelivery)

\* C11: however the stream is split into data events, the message events and
\* the responses written so far are those of the delivery in one piece, and
\* the retained buffer is the rest of the delivered bytes from a frame
\* boundary on (before the header block is complete: all of them).
C11_SplitInvariance ==
  tcp.phase = "open" =>
    /\ deliveriesOf(tcp.sock) = deliveriesOf(onData(NewSocket, received))
    /\ IF tcp.sock.isHandshakeComplete
       THEN \E b \in frameBoundaries : tcp.sock.buffer = slice(received, b)
       ELSE tcp.sock.buffer = received

\* a frame that announces a 64-bit length with non-zero high 32 bits starts
\* at a frame boundary of the delivered bytes and its ten header bytes are there
oversizedReceived ==
  \E b \in frameBoundaries : decodeFrame(slice(received, b)).kind = "throw"

\* C12: once a frame with an oversized 64-bit length has been received the
\* socket is destroyed, its disconnect is emitted when the connection has
\* closed, and no later data event produces a message or a response.
C12_ProtocolErrorFatal ==
  /\ [](oversizedReceived /\ tcp.phase # "none" => tcp.sock.destroyed)
  /\ [][oversizedReceived => deliveriesOf(tcp.sock)' = deliveriesOf(tcp.sock)]_vars

\* the data of a step: the bytes delivered by a data event
stepData == SubSeq(tcp.stream, tcp.pos + 1, tcp.pos')

IsDataStep == tcp.phase = "open" /\ tcp.pos' > tcp.pos

startsWith(bytes, f) == Len(bytes) >= Len(f) /\ SubSeq(bytes, 1, Len(f)) = f

\* what the data handler makes of the bytes on the socket as it is
handled(bytes) == onData([tcp.sock EXCEPT !.threw = FALSE], bytes)

\* C13: a data event that starts, at a frame boundary of a live connection,
\* with a text frame without JSON, a binary frame, a pong or a frame of an
\* unknown opcode has the effect of the same data event without that frame:
\* the frame consumes its own bytes, produces no event, does not close the
\* connection, and the frames after it are decoded and delivered.
C13_NonFatalDiscarded ==
  [][\A f \in NonFatalFrames :
       (/\ IsDataStep
        /\ tcp.sock.isHandshakeComplete /\ ~tcp.sock.destroyed /\ tcp.sock.buffer = << >>
        /\ startsWith(stepData, f))
       => LET frame == decodeFrame(stepData)
              without == handled(slice(stepData, Len(f)))
          IN /\ frame.kind = "frame"
             /\ frame.bytesConsumed = Len(f)
             /\ tcp.sock'.log = without.log
             /\ tcp.sock'.destroyed = without.destroyed
             /\ (~tcp.sock'.threw => tcp.sock'.buffer = without.buffer)]_vars

\* C13 witness: a discarded frame and a text frame after it arrived in one
\* data event; the text frame was delivered and the connection is live
C13_Witness ==
  /\ tcp.phase = "open" /\ ~tcp.sock.destroyed /\ tcp.sock.buffer = << >>
  /\ \E f \in NonFatalFrames, t \in TextFrames, h \in Handshakes :
       /\ tcp.stream = h \o f \o t
       /\ tcp.pos = Len(tcp.stream)
  /\ Len(messagesOf(tcp.sock)) = 1

\* the echo of a close frame was written
closeEchoed == \E i \in 1..Len(tcp.sock.log) : tcp.sock.log[i] = WriteEvent(<<136, 0>>)

\* C14: after the close frame was answered with 0x88 0x00 the socket is
\* destroyed and no data event emits a message any more.
C14_CloseTerminates ==
  /\ [](closeEchoed => tcp.sock.destroyed)
  /\ [][closeEchoed => messagesOf(tcp.sock)' = messagesOf(tcp.sock)]_vars

\* C15: the data event that completes the header block keeps exactly the
\* bytes after the blank line for the frames, and decodes them as frames.
C15_HandshakeBoundary ==
  [][(IsDataStep /\ ~tcp.sock.isHandshakeComplete /\ tcp.sock'.isHandshakeComplete)
     => LET bytes == tcp.sock.buffer \o stepData
            rest == slice(bytes, headerEnd(bytes))
            shaken == [handleHandshake([tcp.sock EXCEPT !.threw = FALSE], toStringUtf8(bytes))
                         EXCEPT !.buffer = rest, !.isHandshakeComplete = TRUE]
        IN tcp.sock' = processFrames(shaken, rest)]_vars

\* C16: decoding a frame the server built returns the payload, the opcode and
\* the length of the whole frame as bytesConsumed, for the payload lengths 0,
\* 1, 125, 126, 65535 and 65536; the frame has no mask bit; and decoding a
\* frame a client masked with a key returns the payload.
C16_RoundTrip ==
  wire.kind = "decoded" =>
    /\ wire.decoded.kind = "frame"
    /\ wire.decoded.payload = wire.payload
    /\ wire.decoded.opcode = wire.opcode
    /\ wire.decoded.bytesConsumed = Len(wire.frame)
    /\ ~wire.masked => wire.frame[2] < 128

\* C16 witness: a built frame with a payload of 126 bytes, the first length
\* of the 16-bit form, was decoded
C16_Witness ==
  /\ wire.kind = "decoded"
  /\ ~wire.masked
  /\ Len(wire.payload) = 126

---------------------------------------------------------------------------
(* Middleware properties *)

chainKinds == {mw.chain[i] : i \in 1..Len(mw.chain)}

throwers == {i \in 1..Len(mw.chain) : mw.chain[i] \in {"throwBefore", "throwAfter"}}

\* the context a dispatch starts with
startCtx == [currentState |-> mw.given, calls |-> 0, trace |-> << >>]

C18_ThrowAfterNext ==
  (mw.dispatches > 0 /\ Len(mw.chain) > 0 /\ mw.chain[1] = "throwAfter") =>
    LET down == dispatchFrom(mw.chain, 2, startCtx, mw.action)
    IN /\ mw.res = down.res
       /\ mw.calls = down.ctx.calls

\* the observation order without the states seen
orderOf(trace) == [i \in 1..Len(trace) |-> <<trace[i].mw, trace[i].ev>>]

\* M1-in, ..., Mn-in, the reducer, Mn-out, ..., M1-out
expectedOrder(n) ==
  [i \in 1..(2 * n + 1) |->
     IF i <= n THEN <<i, "in">>
     ELSE IF i = n + 1 THEN <<0, "reducer">>
     ELSE <<2 * n + 2 - i, "out">>]

\* C19: tracking middlewares M1..Mn applied to one action observe M1-in, ...,
\* Mn-in, then the reducer, then Mn-out, ..., M1-out.
C19_CompositionOrder ==
  (mw.dispatches > 0 /\ chainKinds \subseteq {"track"}) =>
    orderOf(mw.trace) = expectedOrder(Len(mw.chain))

\* C19 witness: three tracking middlewares handled an action
C19_Witness ==
  /\ mw.dispatches > 0
  /\ mw.chain = <<"track", "track", "track">>
  /\ Len(mw.trace) = 7

\* C20 as stated: every api.getState() during a dispatch returns the state
\* that was passed into the dispatch.
C20_GetStateAtStart ==
  mw.dispatches > 0 =>
    \A i \in 1..Len(mw.trace) : mw.trace[i].ev # "reducer" => mw.trace[i].seen = mw.given

\* the reducer's output at the last reducer entry before position i, or the
\* state passed in when the reducer has not run yet
latestAt(i) ==
  LET ran == {j \in 1..(i - 1) : mw.trace[j].ev = "reducer"}
  IN IF ran = {} THEN mw.given
     ELSE mw.trace[CHOOSE j \in ran : \A k \in ran : k <= j].seen

\* C20 amended: api.getState() returns the state passed into the dispatch
\* until the reducer has run, and the reducer's output from then on.
C20_GetStateLatest ==
  mw.dispatches > 0 =>
    \A i \in 1..Len(mw.trace) : mw.trace[i].ev # "reducer" => mw.trace[i].seen = latestAt(i)

\* C20 witness: a tracking middleware read a state after next that differs
\* from the state passed into the dispatch
C20_Witness ==
  /\ mw.dispatches > 0
  /\ \E i \in 1..Len(mw.trace) :
       /\ mw.trace[i].ev = "out"
       /\ mw.trace[i].seen # mw.given

\* does some validator of the chain reject the action: the schema holds a
\* validator for the action's type and it returns false
rejected(action) ==
  \E i \in 1..Len(mw.chain) :
    /\ mw.chain[i] \in ValidatorKinds
    /\ Has(schema(mw.chain[i]), action.type)
    /\ ~schema(mw.chain[i])[action.type]

\* C21: behind validators (and tracking middlewares), a user action that a
\* registered validator rejects never reaches the reducer and the dispatch
\* returns the state it was given; a user action without a rejecting validator
\* and every internal action reach the reducer once, without a warning, and the
\* dispatch returns the reducer's result.
C21_ValidatorDrops ==
  (mw.dispatches > 0 /\ chainKinds \subseteq ValidatorKinds \cup {"track"}
     /\ chainKinds \cap ValidatorKinds # {}) =>
    IF mw.action.type \notin getInternalTypes /\ rejected(mw.action)
    THEN /\ mw.calls = 0
         /\ mw.res = mw.given
    ELSE /\ mw.calls = 1
         /\ mw.res = createGameReducer(mw.given, mw.action)
         /\ \A i \in 1..Len(mw.trace) : mw.trace[i].ev # "warn"

\* C21 witness: a validator whose schema rejects INC and PLAYER_JOINED let the
\* PLAYER_JOINED of h1 through and then dropped an INC
C21_Witness ==
  /\ mw.dispatches = 2
  /\ mw.chain = <<"validator{INC:false,JOINED:false}">>
  /\ Has(mw.given.players, "h1")
  /\ mw.action.type = "INC"
  /\ mw.calls = 0
  /\ mw.res = mw.given

---------------------------------------------------------------------------
(* Reducer properties *)

C23_NoOpIdentity ==
  red.reductions > 0 =>
    /\ (red.action.type \notin getInternalTypes
          /\ reducerOf(red.reducer, red.given, red.action).ref = "state") =>
         red.res.ref = "state" /\ red.res.state = red.given
    /\ (red.action.type = InternalActionTypes.PLAYER_LEFT
          /\ ~Has(red.given.players, red.action.target)) =>
         red.res.ref = "state" /\ red.res.state = red.given

\* C23 witness: PLAYER_LEFT for h2 was reduced on a state whose only player
\* is h1, and the state object came back
C23_Witness ==
  /\ red.reductions > 0
  /\ red.action.type = InternalActionTypes.PLAYER_LEFT
  /\ red.action.target = "h2"
  /\ DOMAIN red.given.players = {"h1"}
  /\ red.res.ref = "state"

\* the entries of every player but p, and every field outside players, are
\* the same in the two states
onlyTouches(before, after, p) ==
  /\ DOMAIN after.players \ {p} = DOMAIN before.players \ {p}
  /\ \A q \in DOMAIN before.players \ {p} : after.players[q] = before.players[q]
  /\ after.count = before.count

\* C24: PLAYER_JOINED for id sets players[id] to {id, name, avatar, isHost:
\* false, connected: true}; PLAYER_LEFT for a player of the state changes that
\* player's connected field to false and nothing else of the player; both leave
\* every other player and every field outside players as they were, return a
\* new object and leave the object passed in as it was.
C24_LifecycleTouchesTarget ==
  red.reductions > 0 =>
    LET a == red.action
        before == red.given
        after == red.res.state
    IN /\ a.type = InternalActionTypes.PLAYER_JOINED =>
            /\ Has(after.players, a.target)
            /\ after.players[a.target] =
                 [id |-> a.target, name |-> a.name, avatar |-> a.avatar,
                  isHost |-> FALSE, connected |-> TRUE]
            /\ onlyTouches(before, after, a.target)
            /\ red.res.ref = "new"
            /\ red.res.input = before
       /\ (a.type = InternalActionTypes.PLAYER_LEFT /\ Has(before.players, a.target)) =>
            /\ Has(after.players, a.target)
            /\ after.players[a.target] = [before.players[a.target] EXCEPT !.connected = FALSE]
            /\ onlyTouches(before, after, a.target)
            /\ red.res.ref = "new"
            /\ red.res.input = before

\* C24 witness: h1 joined with an avatar a state that holds the host player h2
\* and a count of 2
C24_Witness ==
  /\ red.reductions > 0
  /\ red.action.type = InternalActionTypes.PLAYER_JOINED
  /\ red.action.target = "h1"
  /\ red.action.avatar = "cat"
  /\ DOMAIN red.given.players = {"h2"}
  /\ red.given.players["h2"].isHost
  /\ red.given.count = 2
  /\ DOMAIN red.res.state.players = {"h1", "h2"}

---------------------------------------------------------------------------
(* Broadcast properties *)

\* the last step was a broadcast that gave every connection that has joined
\* the canonical state
latestStateSent ==
  /\ \E h \in out.sent : h.type = "STATE_UPDATE"
  /\ \A s \in clients \cap DOMAIN socketIdToPlayerId :
       \E h \in out.sent : h.to = s /\ h.type = "STATE_UPDATE" /\ h.newState = state

\* the last step dispatched an action while every connection had joined
dispatchedWhileJoined ==
  /\ Len(out.disp) > 0
  /\ clients # {}
  /\ \A s \in clients : Has(socketIdToPlayerId, s)

\* C25: after any dispatch, once no further dispatch follows, a STATE_UPDATE
\* carrying the latest canonical state is sent to every connected session.
C25_BroadcastAfterDispatch == dispatchedWhileJoined ~> latestStateSent

\* the STATE_UPDATE messages of the last step
stateUpdates == {h \in out.sent : h.type = "STATE_UPDATE"}

\* the action as it is queued for the broadcast: without the playerId stamp
queuedForm(action) == [action EXCEPT !.playerId = UNDEF]

\* the action field is omitted for no action, the action for one, an array
\* for more than one
tagForm ==
  \A h \in stateUpdates :
    /\ h.code = "omitted" <=> Len(h.tagged) = 0
    /\ h.code = "single" <=> Len(h.tagged) = 1
    /\ h.code = "array" <=> Len(h.tagged) > 1

\* a client action is queued when it is dispatched, and a flush tags its
\* STATE_UPDATEs with the whole queue and empties it
tagStep ==
  /\ (Len(out'.disp) > 0 /\ out'.disp[1].type \in UserTypes) =>
       actionQueue' = Append(actionQueue, queuedForm(out'.disp[1]))
  /\ \A h \in {k \in out'.sent : k.type = "STATE_UPDATE"} :
       h.tagged = actionQueue /\ actionQueue' = << >>
  /\ actionQueue' # actionQueue =>
       \/ Len(out'.disp) > 0 /\ out'.disp[1].type \in UserTypes
       \/ broadcastTimer /\ ~broadcastTimer' /\ actionQueue' = << >>

\* C26: a STATE_UPDATE is tagged with the client actions dispatched since the
\* previous flush, in dispatch order, in the form that fits their number; a
\* flush empties the queue, so no action is tagged twice; and every action
\* that is dispatched appears in a STATE_UPDATE.
C26_TaggedExactlyOnce ==
  /\ []tagForm
  /\ [][tagStep]_vars
  /\ \A t \in UserTypes :
       (dispatchedWhileJoined /\ out.disp[1].type = t) ~>
         (\E h \in stateUpdates : \E i \in 1..Len(h.tagged) : h.tagged[i].type = t)

\* the sockets the last broadcast was meant for: the clients table at the
\* time of the call without the excluded socket
recipients == DOMAIN bc.failure \ {bc.excludeId}

\* C27: when the send to one session fails during a broadcast, by throwing or
\* by rejecting, the message is still sent to every other session, and no
\* exception reaches the caller of broadcast.
C27_SendErrorIsolated ==
  (bc.broadcasts > 0 /\ \E id, other \in recipients :
                          bc.failure[id] # "ok" /\ bc.failure[other] = "ok") =>
    /\ \A id \in recipients : bc.failure[id] = "ok" => id \in bc.res.written
    /\ ~bc.res.propagated

\* C28: once the provider is unmounted, no STATE_UPDATE is broadcast and no
\* PLAYER_REMOVED is dispatched, also not for the disconnect events of the
\* sockets the shutdown destroyed.
C28_NothingAfterShutdown ==
  ~mounted =>
    /\ stateUpdates = {}
    /\ \A i \in 1..Len(out.disp) : out.disp[i].type # InternalActionTypes.PLAYER_REMOVED

\* C29: a join that resolves dispatches PLAYER_RECONNECTED exactly when the
\* resolved identity is in the canonical state at that moment, and
\* PLAYER_JOINED otherwise, also when earlier dispatches are not yet rendered.
C29_Classification ==
  [][(Len(out'.disp) = 1 /\ out'.disp[1].type \in {InternalActionTypes.PLAYER_JOINED,
                                                  InternalActionTypes.PLAYER_RECONNECTED}) =>
       (out'.disp[1].type = InternalActionTypes.PLAYER_RECONNECTED
          <=> Has(state.players, out'.disp[1].target))]_vars

\* the identity the fallback rule gives a secret on the canonical state
canonicalId(secret) ==
  IF /\ ~Has(state.players, derivePlayerId(secret))
     /\ Has(state.players, derivePlayerIdLegacy(secret))
  THEN derivePlayerIdLegacy(secret)
  ELSE derivePlayerId(secret)

\* C30: a join resolves to the legacy id exactly when the canonical state
\* holds a player under the legacy id and none under the current-scheme id,
\* and to the current-scheme id in every other case.
C30_LegacyFallback ==
  [][\A d \in BagToSet(pending) :
       CopiesIn(d, pending') < CopiesIn(d, pending) =>
         socketIdToPlayerId'[d.sock] = canonicalId(d.secret)]_vars

---------------------------------------------------------------------------
(* Replay properties *)

\* has replayActions returned
replayed == rp.phase \in {"replayed", "again"}

\* the reducer applied to the first k recorded actions, one after the other,
\* starting from recording.initialState
RECURSIVE folded(_)
folded(k) ==
  IF k = 0 THEN rp.recording.initialState
  ELSE testReducer(Held(folded(k - 1), "new"), rp.recording.actions[k].action).state

\* C31: a replay applies the recorded actions in order from
\* recording.initialState: there is one snapshot per action, the snapshot of
\* the action at (zero-based) index i holds the reducer folded over the actions
\* 0..i, that action, its timestamp and i; actionCount is the number of
\* actions and finalState is the state of the last snapshot; a second replay of
\* the same recording gives the same finalState and snapshots.
C31_ReplayInOrder ==
  replayed =>
    LET n == Len(rp.recording.actions)
    IN /\ Len(rp.res.snapshots) = n
       /\ \A k \in 1..n :
            rp.res.snapshots[k] =
              [state |-> folded(k), action |-> rp.recording.actions[k].action,
               timestamp |-> rp.recording.actions[k].timestamp, index |-> k - 1]
       /\ rp.res.actionCount = n
       /\ n > 0 => rp.res.finalState = rp.res.snapshots[n].state
       /\ rp.res.finalState = folded(n)
       /\ rp.phase = "again" =>
            /\ rp.again.finalState = rp.res.finalState
            /\ rp.again.snapshots = rp.res.snapshots

\* C31 witness: SET 2 then DECREMENT were replayed twice; the snapshots hold
\* the counts 2 and 1
C31_Witness ==
  /\ rp.phase = "again"
  /\ Len(rp.recording.actions) = 2
  /\ rp.recording.actions[1].action = [type |-> "SET", hasValue |-> TRUE, value |-> 2]
  /\ rp.recording.actions[2].action.type = "DECREMENT"
  /\ rp.res.snapshots[1].state.count = 2
  /\ rp.res.snapshots[2].state.count = 1
  /\ rp.res.finalState.count = 1

\* C32 as stated: the replay of every recording with an empty action list
\* gives no snapshots, actionCount 0, duration 0 and the object
\* recording.initialState as finalState.
C32_EmptyRecordingZeroDuration ==
  (replayed /\ rp.recording.actions = << >>) =>
    /\ rp.res.snapshots = << >>
    /\ rp.res.actionCount = 0
    /\ rp.res.duration = 0
    /\ rp.res.finalRef = "initialState"
    /\ rp.res.finalState = rp.recording.initialState

\* C32 amended: the replay of a recording with an empty action list gives no
\* snapshots, actionCount 0 and the object recording.initialState as
\* finalState; its duration is 0 when the recording has no endTimestamp and
\* endTimestamp - startTimestamp when it has one.
C32_EmptyRecording ==
  (replayed /\ rp.recording.actions = << >>) =>
    /\ rp.res.snapshots = << >>
    /\ rp.res.actionCount = 0
    /\ rp.res.duration = IF rp.recording.hasEnd
                         THEN rp.recording.endTimestamp - rp.recording.startTimestamp
                         ELSE 0
    /\ rp.res.finalRef = "initialState"
    /\ rp.res.finalState = rp.recording.initialState

\* C32 witness: a recording without actions that ended two milliseconds after
\* it started was replayed
C32_Witness ==
  /\ replayed
  /\ rp.recording.actions = << >>
  /\ rp.recording.hasEnd
  /\ rp.recording.startTimestamp = 0
  /\ rp.recording.endTimestamp = 2
  /\ rp.res.duration = 2

\* C33: the duration of a replay is endTimestamp - startTimestamp when the
\* recording has an endTimestamp, else the timestamp of the last action minus
\* startTimestamp, else (no actions) 0.
C33_Duration ==
  replayed =>
    LET n == Len(rp.recording.actions)
    IN rp.res.duration =
         IF rp.recording.hasEnd
         THEN rp.recording.endTimestamp - rp.recording.startTimestamp
         ELSE IF n > 0
              THEN rp.recording.actions[n].timestamp - rp.recording.startTimestamp
              ELSE 0

\* C33 witness: a recording with endTimestamp 0, startTimestamp 1 and a last
\* action at 2 was replayed
C33_Witness ==
  /\ replayed
  /\ rp.recording.hasEnd
  /\ rp.recording.endTimestamp = 0
  /\ rp.recording.startTimestamp = 1
  /\ Len(rp.recording.actions) > 0
  /\ rp.recording.actions[Len(rp.recording.actions)].timestamp = 2
  /\ rp.res.duration = -1

---------------------------------------------------------------------------
(* Time sync properties *)

\* the pending probes as a set of entries
pendingOf(t) == {t.pings[i] : i \in 1..Len(t.pings)}

\* the pending probe that was sent first
oldestOf(t) == CHOOSE p \in pendingOf(t) : \A q \in pendingOf(t) : p.sent <= q.sent

\* a probe step adds the new probe; when the map was full it removes the
\* oldest pending probe and nothing else
probeStep ==
  ts'.ids # ts.ids =>
    pendingOf(ts') =
      (IF Len(ts.pings) >= MAX_PENDING_PINGS
       THEN pendingOf(ts) \ {oldestOf(ts)} ELSE pendingOf(ts))
      \cup {Ping(ts'.ids, ts.now)}

\* a PONG step removes the probes with the PONG's id: at most one
pongStep ==
  ts'.pongs # ts.pongs =>
    LET matching == {p \in pendingOf(ts) : p.id = ts'.pong.id}
    IN /\ Cardinality(matching) <= 1
       /\ pendingOf(ts') = pendingOf(ts) \ matching

\* C34: the pending map never holds more than MAX_PENDING_PINGS entries (one
\* per probe id), the entry a probe evicts is the oldest pending probe, and a
\* PONG is matched to at most one probe, which it removes; a PONG with an
\* unknown, an evicted or an already answered id changes nothing.
C34_PendingBounded ==
  /\ [](/\ Len(ts.pings) <= MAX_PENDING_PINGS
        /\ Cardinality(pingIds(ts.pings)) = Len(ts.pings))
  /\ [][probeStep /\ pongStep]_vars

\* C34 witness: after two evictions the map is full, and a PONG for the first
\* probe, which was evicted, has arrived and matched nothing
C34_Witness ==
  /\ ts.ids = MaxProbes
  /\ Len(ts.pings) = MAX_PENDING_PINGS
  /\ ts.op = "pong"
  /\ ts.pong.id = 1
  /\ ~ts.calc.ran
  /\ pingIds(ts.pings) = 3..MaxProbes

\* C35: calculateTimeSync(sendTime, receiveTime, serverTime) returns
\* rtt = receiveTime - sendTime and offset = serverTime + rtt/2 - receiveTime
\* (here twice the offset, 2 * serverTime + rtt - 2 * receiveTime), also when
\* the client's clock is ahead of the server's.
C35_TimeSync ==
  ts.calc.ran =>
    /\ ts.timeSync.rtt = ts.calc.receive - ts.calc.send
    /\ ts.timeSync.offset2 =
         2 * ts.calc.server + (ts.calc.receive - ts.calc.send) - 2 * ts.calc.receive

\* C35 witness: a PONG of a server behind the client came back after an odd
\* number of milliseconds, the offset is negative
C35_Witness ==
  /\ ts.phase = "open"
  /\ ts.calc.ran
  /\ ts.calc.server < ts.calc.receive
  /\ ts.timeSync.rtt % 2 = 1
  /\ ts.timeSync.offset2 < 0

---------------------------------------------------------------------------
(* Session bookkeeping properties *)

\* the WELCOME and RECONNECTED messages the last handler sent
welcomes == {h \in out.sent : h.type \in {"WELCOME", "RECONNECTED"}}

\* C36: the state snapshot of every WELCOME or RECONNECTED message holds the
\* player the message names, marked connected.
C36_WelcomeHoldsPlayer ==
  \A h \in welcomes :
    /\ Has(h.state.players, h.playerId)
    /\ h.state.players[h.playerId].connected

\* C37: once the disconnect of a connection has been processed, the
\* connection is in none of the per-connection tables (connection-to-player
\* cache, reverse map, rate limits, welcomed set, pending welcomes), and a
\* secret is registered to it only while the grace timer that disconnect armed
\* is pending; also when a JOIN of the connection resolves after the close.
C37_NoBookkeepingAfterDisconnect ==
  \A s \in Sockets :
    status[s] = "closed" =>
      /\ ~Has(socketIdToPlayerId, s)
      /\ ~Has(reverseMap, s)
      /\ ~Has(rateLimits, s)
      /\ s \notin welcomedClients
      /\ ~Has(pendingWelcome, s)
      /\ \A x \in DOMAIN sessions :
           sessions[x] = s => \E t \in timers : t.sock = s /\ t.secret = x

\* the close of connection s is handled while the session table registers
\* another connection for the secret of s
supersededClose(s) ==
  /\ status[s] \in {"open", "closing"}
  /\ status'[s] = "closed"
  /\ Has(socketIdToPlayerId, s)
  /\ Has(reverseMap, s)
  /\ Has(sessions, reverseMap[s])
  /\ sessions[reverseMap[s]] # s

\* C38: the close of a superseded connection leaves the canonical state, the
\* session entry of the secret, the player's grace timer and the player's
\* assets-loaded flag as they were.
C38_SupersededCloseChangesNothing ==
  [][\A s \in Sockets :
       supersededClose(s) =>
         /\ state' = state
         /\ sessions' = sessions
         /\ timers' = timers
         /\ cleanupTimers' = cleanupTimers
         /\ assetsLoaded' = assetsLoaded]_vars

\* the pending grace timers of player p
timersOf(p) == {t \in timers : t.playerId = p}

\* C39: while the provider is mounted there is at most one pending grace timer
\* per player; a timer is pending for p exactly when the last registry event of
\* p was a disconnect that passed the race guard and p was not removed since;
\* the player of a pending timer is in players with connected false, no player
\* marked connected has a pending timer and every player marked disconnected
\* has one.
C39_TimersTrackDisconnected ==
  mounted =>
    /\ \A p \in PlayerIds : Cardinality(timersOf(p)) <= 1
    /\ \A p \in PlayerIds :
         timersOf(p) # {} <=>
           (Has(lastEvent, p) /\ lastEvent[p] = "left" /\ Has(state.players, p))
    /\ \A p \in PlayerIds :
         timersOf(p) # {} => (Has(state.players, p) /\ ~state.players[p].connected)
    /\ \A p \in DOMAIN state.players :
         state.players[p].connected <=> timersOf(p) = {}

---------------------------------------------------------------------------
(* Handshake properties *)

\* the events of kind ev among the first n entries of the socket's log
eventsBefore(n, ev) == {j \in 1..(n - 1) : tcp.sock.log[j].ev = ev}

\* C40: every message event carries the socket id that a successful handshake
\* assigned, and is emitted while the socket is in the clients table (after
\* its connection event, before its disconnect event); a connection whose
\* header block has no key line is destroyed and emits no message.
C40_MessageOnlyAfterHandshake ==
  /\ \A i \in 1..Len(tcp.sock.log) :
       IsMessage(tcp.sock.log[i]) =>
         /\ tcp.sock.log[i].id = SOCKID
         /\ eventsBefore(i, "connection") # {}
         /\ eventsBefore(i, "disconnect") = {}
  /\ (tcp.sock.isHandshakeComplete /\ tcp.sock.id = UNDEF) =>
       (tcp.sock.destroyed /\ messagesOf(tcp.sock) = << >>)

====
